---- MODULE Spec2Model ----
(***************************************************************************)
(* Verification model of the hurricane exposure core:                      *)
(*   - impute_missing_wind_radii / identify_imputable_segments             *)
(*   - the gap-aware segmentation scan of create_storm_envelope            *)
(*   - interpolate_track_temporal                                          *)
(*   - calculate_duration_features / calculate_duration_for_tract          *)
(*   - calculate_lead_times / validate_lead_times                          *)
(*   - calculate_max_wind_experienced                                      *)
(* Each component has its own specification (SpecImpute, SpecSegment, ...).*)
(* The variables of the components that a specification does not run stay  *)
(* at their idle values.                                                   *)
(*                                                                         *)
(* Numbers.  Python floats are modelled as exact rationals [n, d] in       *)
(* lowest terms with d > 0.  A missing value (NaN) is [n |-> 0, d |-> 0];  *)
(* Python's None is [n |-> 1, d |-> 0].                                    *)
(***************************************************************************)
EXTENDS Integers, Sequences, FiniteSets, TLC

VARIABLES
    \* impute_missing_wind_radii
    storm_track,        \* the caller's table (raw radii per step)
    track,              \* the working copy that is returned
    imputable_mask,     \* identify_imputable_segments(track)
    position,           \* loop index of the imputation loop (1-based)
    last_known_ratio,   \* carried shrink/growth ratio
    impute_pc,          \* "idle" | "loop" | "done"
    first_output,       \* the table the first call returned, once it is passed in again
    impute_run,         \* 1 for the first call, 2 for the call on its own output
    \* create_storm_envelope, segmentation scan
    has_radii,          \* working_track['has_radii']
    segment_ids,        \* ids appended so far
    current_segment,
    gap_counter,
    in_gap,
    segment_pc,         \* "idle" | "scan" | "done"
    \* interpolate_track_temporal
    track_df,           \* the caller's track: rows [date (minutes), lat]
    interval_minutes,
    track_sorted,
    records,
    idx,                \* outer loop index (1-based)
    interp_pc,          \* "idle" | "sort" | "loop" | "done" | "error"
    \* calculate_duration_for_tract / calculate_duration_features
    exposure_timeline,  \* rows [date, is_inside, complete]
    dur_interval,       \* interval_minutes of the duration call
    coverage,           \* "none" | "inside" | "outside" | "no_contains"
    envelope,           \* "none" | "inside" | "outside" | "no_contains"
    distance_to_edge,   \* centroid.distance(polygon.boundary), degrees; None = it raised
    duration,           \* the result dictionary
    dur_pc,             \* "idle" | "timeline" | "features" | "done"
    \* calculate_lead_times / validate_lead_times
    lead_track_df,      \* rows [date (minutes), max_wind]
    nearest_approach_time,
    lead_times,         \* the dictionary, key -> hours or None
    lead_cat,           \* position of the loop over CATEGORY_THRESHOLDS
    lead_valid,         \* what validate_lead_times returned
    lead_pc,            \* "idle" | "loop" | "returned" | "validate" | "validated"
    \* calculate_max_wind_experienced
    center_wind,        \* interpolate_max_wind_at_point(...)
    rmw_observed,       \* interpolated radius_max_wind, NaN when none is observed
    rmw_at_approach,
    centroid_dist_nm,
    ray_exit_nm,        \* where the ray leaves the envelope; None = it does not
    edge_dist_nm,
    wind_radii,         \* [given, r64, r50, r34]
    wind_result,        \* the returned dictionary
    wind_pc,            \* "idle" | "start" | "approach" | "done" | "error"
    \* create_instantaneous_wind_polygon
    poly_radii,         \* quadrant -> radius passed in
    buffer_deg,
    wind_polygon,       \* the returned footprint
    arc_coords,         \* the vertex list built by the arc loop
    poly_pc,            \* "idle" | "start" | "done"
    \* run_pipeline, the per-point loop
    pipe_points,        \* the points to evaluate, in order
    wind_rows,          \* wind_rows
    pipe_idx,           \* 1-based loop index
    pipe_pc,            \* "idle" | "loop" | "call" | "done"
    \* create_storm_envelope
    env_has_radii,      \* per step: some effective radius is positive
    env_quadrants,      \* valid quadrants of a step that has radii
    hulls,              \* per segment: collected points, hull method, emptiness
    env_result,         \* the returned triple
    env_pc              \* "idle" | "start" | "segments" | "returned" | "raised"

imputeVars  == <<storm_track, track, imputable_mask, position, last_known_ratio, impute_pc,
                 first_output, impute_run>>
segmentVars == <<has_radii, segment_ids, current_segment, gap_counter, in_gap, segment_pc>>
interpVars  == <<track_df, interval_minutes, track_sorted, records, idx, interp_pc>>
durVars     == <<exposure_timeline, dur_interval, coverage, envelope, distance_to_edge,
                 duration, dur_pc>>
leadVars    == <<lead_track_df, nearest_approach_time, lead_times, lead_cat, lead_valid,
                 lead_pc>>
windVars    == <<center_wind, rmw_observed, rmw_at_approach, centroid_dist_nm, ray_exit_nm,
                 edge_dist_nm, wind_radii, wind_result, wind_pc>>
polyVars    == <<poly_radii, buffer_deg, wind_polygon, arc_coords, poly_pc>>
pipeVars    == <<pipe_points, wind_rows, pipe_idx, pipe_pc>>
envVars     == <<env_has_radii, env_quadrants, hulls, env_result, env_pc>>
vars == <<imputeVars, segmentVars, interpVars, durVars, leadVars,
          windVars, polyVars, pipeVars, envVars>>

\* What each component leaves alone.
notImputeVars  == <<segmentVars, interpVars, durVars, leadVars,
                   windVars, polyVars, pipeVars, envVars>>
notSegmentVars == <<imputeVars, interpVars, durVars, leadVars,
                   windVars, polyVars, pipeVars, envVars>>
notInterpVars  == <<imputeVars, segmentVars, durVars, leadVars,
                   windVars, polyVars, pipeVars, envVars>>
notDurVars     == <<imputeVars, segmentVars, interpVars, leadVars,
                   windVars, polyVars, pipeVars, envVars>>
notLeadVars    == <<imputeVars, segmentVars, interpVars, durVars,
                   windVars, polyVars, pipeVars, envVars>>
notWindVars    == <<imputeVars, segmentVars, interpVars, durVars,
                   leadVars, polyVars, pipeVars, envVars>>
notPolyVars    == <<imputeVars, segmentVars, interpVars, durVars,
                   leadVars, windVars, pipeVars, envVars>>
notPipeVars    == <<imputeVars, segmentVars, interpVars, durVars,
                   leadVars, windVars, polyVars, envVars>>
notEnvVars     == <<imputeVars, segmentVars, interpVars, durVars,
                   leadVars, windVars, polyVars, pipeVars>>

---------------------------------------------------------------------------
(* Exact rational arithmetic standing in for float arithmetic.             *)

Abs(x) == IF x < 0 THEN -x ELSE x

RECURSIVE GCD(_, _)
GCD(a, b) == IF b = 0 THEN a ELSE GCD(b, a % b)

Rat(n, d) ==
    LET g == GCD(Abs(n), Abs(d))
        s == IF d < 0 THEN -1 ELSE 1
    IN  [n |-> (s * n) \div g, d |-> (s * d) \div g]

Int2Rat(k) == [n |-> k, d |-> 1]
NaN  == [n |-> 0, d |-> 0]
None == [n |-> 1, d |-> 0]

notna(x) == x.d # 0
isna(x)  == x.d = 0

RatAdd(a, b) == Rat(a.n * b.d + b.n * a.d, a.d * b.d)
RatSub(a, b) == Rat(a.n * b.d - b.n * a.d, a.d * b.d)
RatMul(a, b) == Rat(a.n * b.n, a.d * b.d)
RatDiv(a, b) == Rat(a.n * b.d, a.d * b.n)
RatLt(a, b)  == a.n * b.d < b.n * a.d
RatLe(a, b)  == a.n * b.d <= b.n * a.d
RatMax(a, b) == IF RatLt(a, b) THEN b ELSE a
RatMin(a, b) == IF RatLt(b, a) THEN b ELSE a
Zero == Int2Rat(0)
One  == Int2Rat(1)

RECURSIVE RatSum(_)
RatSum(s) == IF s = <<>> THEN Zero ELSE RatAdd(Head(s), RatSum(Tail(s)))

\* numpy.mean of a non-empty list
Mean(s) == RatDiv(RatSum(s), Int2Rat(Len(s)))

---------------------------------------------------------------------------
(* WindRadiiImputer: src/hurdat2/src/envelope_algorithm.py                 *)

quadrants == <<"ne", "se", "sw", "nw">>
Quads == {"ne", "se", "sw", "nw"}

\* Longest track the imputer is run on.
MaxTrackLen == 3

\* Raw radii (nm) a step may carry in each quadrant.  The parser turns the
\* 0 / -999 sentinels into missing values, so a present radius is > 0.
RadiiChoices ==
    [ne |-> {NaN, Int2Rat(30), Int2Rat(60)},
     se |-> {NaN, Int2Rat(30)},
     sw |-> {NaN, Int2Rat(30)},
     nw |-> {NaN, Int2Rat(60)}]

RawRows == {r \in [Quads -> {NaN, Int2Rat(30), Int2Rat(60)}] :
               \A q \in Quads : r[q] \in RadiiChoices[q]}

RawTracks == UNION {[1..n -> RawRows] : n \in 0..MaxTrackLen}

\* current_vals.notna() & (current_vals > 0)
defined(v) == notna(v) /\ RatLt(Zero, v)

defined_count_of(row) == Cardinality({q \in Quads : defined(row[q])})

\* A variant of imputable_at that marks every step with a missing quadrant.
imputable_at_any_incomplete(t, pos) ==
    defined_count_of(t[pos].base) # Len(quadrants)

\* identify_imputable_segments: one boolean per position
imputable_at(t, pos) ==
    LET defined_count == defined_count_of(t[pos].base)
        prev_defined_count ==
            IF pos > 1 THEN defined_count_of(t[pos - 1].base) ELSE 0
    IN  IF defined_count = Len(quadrants)
        THEN FALSE
        ELSE (defined_count >= 2) \/ (prev_defined_count >= 2)

identify_imputable_segments(t) == [pos \in 1..Len(t) |-> imputable_at(t, pos)]

\* Lines 167-181: the copy with the derived columns added.
InitialWorkingRow(raw) ==
    [base         |-> raw,
     imputed      |-> raw,
     was_imputed  |-> [q \in Quads |-> FALSE],
     ratio        |-> NaN,
     any_imputed  |-> FALSE]

InitialWorkingTrack(st) == [i \in 1..Len(st) |-> InitialWorkingRow(st[i])]

\* Lines 198-213: the ratios over the quadrants observed now and usable before.
RECURSIVE RatiosOver(_, _, _)
RatiosOver(qs, cur, prevImp) ==
    IF qs = <<>> THEN <<>>
    ELSE LET q == Head(qs)
             rest == RatiosOver(Tail(qs), cur, prevImp)
         IN  IF notna(cur[q]) /\ notna(prevImp[q]) /\ RatLt(Zero, prevImp[q])
             THEN <<RatDiv(cur[q], prevImp[q])>> \o rest
             ELSE rest

\* A variant of computed_ratio that compares with the previous raw radii.
computed_ratio_observed_only(t, pos) ==
    IF pos = 1 THEN None
    ELSE LET ratios == RatiosOver(quadrants, t[pos].base, t[pos - 1].base)
         IN  IF ratios = <<>> THEN None ELSE RatMax(Mean(ratios), Zero)

computed_ratio(t, pos) ==
    IF pos = 1 THEN None
    ELSE LET ratios == RatiosOver(quadrants, t[pos].base, t[pos - 1].imputed)
         IN  IF ratios = <<>> THEN None ELSE RatMax(Mean(ratios), Zero)

\* Lines 244-249
imputed_value(prev_val, applied_ratio) ==
    IF RatLe(prev_val, Zero) THEN Zero
    ELSE LET v == RatMul(prev_val, applied_ratio)
         IN  IF RatLt(v, Zero) THEN Zero ELSE v

\* A variant of fills that forgets the "observed value already present" test
\* of lines 237-238.
fills_overwriting(t, pos, q) ==
    notna(t[pos - 1].imputed[q])

\* Lines 235-253: which quadrants of the row are filled.
fills(t, pos, q) ==
    /\ ~ defined(t[pos].base[q])
    /\ notna(t[pos - 1].imputed[q])

\* A variant of stored_ratio that stores only a newly computed ratio.
stored_ratio_no_carry(ratio0, lkr, old) == IF ratio0 # None THEN ratio0 ELSE old

\* Lines 215-219: the ratio stored in the row.
stored_ratio(ratio0, lkr, old) ==
    IF ratio0 # None THEN ratio0 ELSE IF lkr # None THEN lkr ELSE old

\* Lines 225-229: the ratio the imputation of the row uses.
applied_ratio_for(defined_count, ratio0, lkr) ==
    LET applied1 == IF defined_count >= 2 /\ ratio0 = None /\ lkr # None
                    THEN lkr ELSE ratio0
    IN  IF defined_count < 2
        THEN (IF applied1 # None THEN applied1 ELSE lkr)
        ELSE applied1

\* One iteration of the loop at lines 188-258.  The singleton quantifiers
\* name the loop body's local variables.
ImputeRow ==
    /\ impute_pc = "loop"
    /\ position <= Len(track)
    /\ \E ratio0 \in {computed_ratio(track, position)} :
       \E lkr \in {IF ratio0 # None THEN ratio0 ELSE last_known_ratio} :
       \E applied_ratio \in
            {applied_ratio_for(defined_count_of(track[position].base), ratio0, lkr)} :
       \E filled \in
            {IF imputable_mask[position] /\ applied_ratio # None /\ position > 1
             THEN {q \in Quads : fills(track, position, q)} ELSE {}} :
         /\ track' = [track EXCEPT ![position] =
               [base        |-> @.base,
                imputed     |-> [q \in Quads |->
                                   IF q \in filled
                                   THEN imputed_value(track[position - 1].imputed[q],
                                                      applied_ratio)
                                   ELSE @.imputed[q]],
                was_imputed |-> [q \in Quads |->
                                   IF q \in filled THEN TRUE ELSE @.was_imputed[q]],
                ratio       |-> stored_ratio(ratio0, lkr, @.ratio),
                any_imputed |-> IF filled # {} THEN TRUE ELSE @.any_imputed]]
         /\ last_known_ratio' = IF filled # {} THEN applied_ratio ELSE lkr
    /\ position' = position + 1
    /\ UNCHANGED <<storm_track, imputable_mask, impute_pc, first_output, impute_run>>
    /\ UNCHANGED notImputeVars

\* Line 260 (and line 165 for an empty table): return track.
ImputeReturn ==
    /\ impute_pc = "loop"
    /\ position > Len(track)
    /\ impute_pc' = "done"
    /\ UNCHANGED <<storm_track, track, imputable_mask, position, last_known_ratio,
                   first_output, impute_run>>
    /\ UNCHANGED notImputeVars

\* A second call of impute_missing_wind_radii, on the table the first call
\* returned.  The table now carries the derived columns; lines 176-181 read
\* only the raw columns of it (track[base_col]) and re-initialise the rest.
MaxRerunLen == 3

\* The raw rows of the second-call runs: the two southern quadrants agree.
RerunRows == {r \in RawRows : r.se = r.sw}

RerunTracks == UNION {[1..n -> RerunRows] : n \in 0..MaxRerunLen}

\* A variant of BaseColumns that reads the effective columns as if raw.
EffectiveColumns(table) == [i \in DOMAIN table |-> table[i].imputed]

\* track[base_col] for each quadrant (lines 177, 191).
BaseColumns(table) == [i \in DOMAIN table |-> table[i].base]

ImputeRerun ==
    /\ impute_pc = "done"
    /\ impute_run = 1
    /\ first_output' = track
    /\ impute_run' = 2
    /\ \E fresh \in {InitialWorkingTrack(BaseColumns(track))} :
         /\ track' = fresh
         /\ imputable_mask' = identify_imputable_segments(fresh)
    /\ position' = 1
    /\ last_known_ratio' = One
    /\ impute_pc' = "loop"
    /\ UNCHANGED storm_track
    /\ UNCHANGED notImputeVars

---------------------------------------------------------------------------
(* TrackSegmenter: the scan at lines 503-520 of create_storm_envelope.     *)

\* Longest has_radii series that is scanned.
MaxScanLen == 12

\* Line 514: a gap of this many steps starts a new segment.
GapThreshold == 5

HasRadiiSeries == UNION {[1..n -> BOOLEAN] : n \in 0..MaxScanLen}

\* A variant of the test of line 514 that needs one more missing step.
starts_new_segment_strict(has_radii_val, gap_flag, counter) ==
    has_radii_val /\ gap_flag /\ counter > GapThreshold

starts_new_segment(has_radii_val, gap_flag, counter) ==
    has_radii_val /\ gap_flag /\ counter >= GapThreshold

\* A variant of next_segment that skips an id when a new segment starts.
next_segment_skipping(current, starts) == IF starts THEN current + 2 ELSE current

\* Line 515
next_segment(current, starts) == IF starts THEN current + 1 ELSE current

ScanStep ==
    /\ segment_pc = "scan"
    /\ Len(segment_ids) < Len(has_radii)
    /\ LET has_radii_val == has_radii[Len(segment_ids) + 1]
           seg == next_segment(current_segment,
                               starts_new_segment(has_radii_val, in_gap, gap_counter))
       IN  /\ current_segment' = seg
           /\ gap_counter' = IF has_radii_val THEN 0 ELSE gap_counter + 1
           /\ in_gap' = ~ has_radii_val
           /\ segment_ids' = Append(segment_ids, seg)
    /\ UNCHANGED <<has_radii, segment_pc>>
    /\ UNCHANGED notSegmentVars

ScanDone ==
    /\ segment_pc = "scan"
    /\ Len(segment_ids) = Len(has_radii)
    /\ segment_pc' = "done"
    /\ UNCHANGED <<has_radii, segment_ids, current_segment, gap_counter, in_gap>>
    /\ UNCHANGED notSegmentVars

---------------------------------------------------------------------------
(* TemporalTrackInterpolator: interpolate_track_temporal,                  *)
(* src/02_transformations/duration/src/duration_calculator.py lines 21-70. *)
(* A track row is [date, lat]: the timestamp in minutes and one numeric    *)
(* column (every numeric column is treated alike, lines 58-64).            *)

\* Most observations in an interpolated track.
MaxObs == 3

DateChoices     == {0, 10, 30, 60}
LatChoices      == {NaN, Int2Rat(10), Int2Rat(40)}
IntervalChoices == {15, 30}

ObsRows == [date : DateChoices, lat : LatChoices]

\* build_simple_track of the tests: two fixes 6 hours apart.
BasicTrack == <<[date |-> 0, lat |-> Int2Rat(25)], [date |-> 360, lat |-> Int2Rat(26)]>>

InterpTracks == (UNION {[1..n -> ObsRows] : n \in 0..MaxObs}) \cup {BasicTrack}

IndexOrders(n) == {p \in [1..n -> 1..n] : \A i, j \in 1..n : i # j => p[i] # p[j]}

\* Line 27: sort_values("date").  The default sort is not stable, so rows
\* with equal dates may come out in any order.
SortedByDate(t) ==
    {[i \in 1..Len(t) |-> t[p[i]]] : p \in
        {q \in IndexOrders(Len(t)) :
            \A i \in 1..(Len(t) - 1) : t[q[i]].date <= t[q[i + 1]].date}}

\* A variant of steps_between that stops one step short of the end of the gap.
steps_between_short(start, end, interval) ==
    LET interval_seconds == interval * 60
        delta_seconds == (end.date - start.date) * 60
    IN  IF delta_seconds <= 0 THEN 0
        ELSE IF delta_seconds \div interval_seconds = 0 THEN 0
        ELSE (delta_seconds \div interval_seconds) - 1

\* Line 46
steps_between(start, end, interval) ==
    LET interval_seconds == interval * 60
        delta_seconds == (end.date - start.date) * 60
    IN  IF delta_seconds <= 0 THEN 0 ELSE delta_seconds \div interval_seconds

\* A variant of interpolate_value that carries the end value into a gap whose
\* start value is missing.
interpolate_value_from_end(start_val, end_val, ratio) ==
    IF isna(end_val) THEN NaN
    ELSE IF isna(start_val) THEN end_val
    ELSE RatAdd(start_val, RatMul(ratio, RatSub(end_val, start_val)))

\* Lines 58-64
interpolate_value(start_val, end_val, ratio) ==
    IF isna(start_val) \/ isna(end_val) THEN NaN
    ELSE RatAdd(start_val, RatMul(ratio, RatSub(end_val, start_val)))

\* Lines 50-65: the rows generated for one gap.
GapRows(start, end, interval) ==
    LET interval_seconds == interval * 60
        delta_seconds == (end.date - start.date) * 60
    IN  [step \in 1..steps_between(start, end, interval) |->
            LET over == start.date * 60 + step * interval_seconds > end.date * 60
                current_time == IF over THEN end.date ELSE start.date + step * interval
                ratio == IF over THEN One ELSE Rat(step * interval_seconds, delta_seconds)
            IN  [date |-> current_time,
                 lat  |-> interpolate_value(start.lat, end.lat, ratio)]]

InterpSort ==
    /\ interp_pc = "sort"
    /\ track_sorted' \in SortedByDate(track_df)
    /\ records' = <<>>
    /\ idx' = 1
    /\ interp_pc' = "loop"
    /\ UNCHANGED <<track_df, interval_minutes>>
    /\ UNCHANGED notInterpVars

\* One iteration of the loop at lines 33-65.
InterpGap ==
    /\ interp_pc = "loop"
    /\ idx <= Len(track_sorted) - 1
    /\ records' = records
                    \o (IF idx = 1 THEN <<track_sorted[idx]>> ELSE <<>>)
                    \o GapRows(track_sorted[idx], track_sorted[idx + 1], interval_minutes)
    /\ idx' = idx + 1
    /\ UNCHANGED <<track_df, interval_minutes, track_sorted, interp_pc>>
    /\ UNCHANGED notInterpVars

\* A variant of replace_last that adds the last observation as a new row.
append_last(recs, row) == Append(recs, row)

\* Line 68: records[-1] = track_sorted.iloc[-1].to_dict()
replace_last(recs, row) == [recs EXCEPT ![Len(recs)] = row]

\* Lines 67-70: the last record is replaced by the last observation.
InterpReturn ==
    /\ interp_pc = "loop"
    /\ idx > Len(track_sorted) - 1
    /\ Len(track_sorted) >= 1 => records # <<>>
    /\ records' = IF Len(track_sorted) >= 1
                  THEN replace_last(records, track_sorted[Len(track_sorted)])
                  ELSE records
    /\ interp_pc' = "done"
    /\ UNCHANGED <<track_df, interval_minutes, track_sorted, idx>>
    /\ UNCHANGED notInterpVars

\* Line 68 on an empty list: records[-1] raises IndexError (a one-row track).
InterpIndexError ==
    /\ interp_pc = "loop"
    /\ idx > Len(track_sorted) - 1
    /\ Len(track_sorted) >= 1
    /\ records = <<>>
    /\ interp_pc' = "error"
    /\ UNCHANGED <<track_df, interval_minutes, track_sorted, records, idx>>
    /\ UNCHANGED notInterpVars

---------------------------------------------------------------------------
(* DurationEvaluator: calculate_duration_features (lines 180-214),         *)
(* calculate_duration_for_tract (lines 304-336) and                        *)
(* _interpolate_duration_near_edge (lines 339-412).                        *)
(* A timeline row is [date, is_inside, complete]: the timestamp, the       *)
(* point-in-polygon outcome of check_centroid_exposure_over_time and       *)
(* whether the step has all four radii valid.  Times in a result are       *)
(* rationals (minutes) or None.                                            *)

\* Longest exposure timeline.
MaxTimelineLen == 3

DurIntervalChoices == {15, 60}
PolygonChoices == {"none", "inside", "outside", "no_contains"}
DistanceChoices == {None, Zero, Rat(1, 10), Rat(3, 20), Rat(1, 5), Rat(1, 2)}

\* Line 391
edge_buffer_deg == Rat(1, 5)

\* The timestamps of the interpolated track: one interval apart, except that
\* the gap after row irregular_at (if any) is 10 minutes longer, as happens
\* after an observation that is not on an interval boundary.
TimelineDate(k, interval, irregular_at) ==
    (k - 1) * interval + (IF irregular_at # 0 /\ k > irregular_at THEN 10 ELSE 0)

\* np.argmax(in_mask): the first inside index
RECURSIVE first_inside_from(_, _)
first_inside_from(tl, k) ==
    IF k > Len(tl) THEN 0
    ELSE IF tl[k].is_inside THEN k ELSE first_inside_from(tl, k + 1)

first_inside_idx(tl) == first_inside_from(tl, 1)

\* len - 1 - np.argmax(in_mask[::-1]): the last inside index
RECURSIVE last_inside_from(_, _)
last_inside_from(tl, k) ==
    IF k < 1 THEN 0
    ELSE IF tl[k].is_inside THEN k ELSE last_inside_from(tl, k - 1)

\* A variant that forgets to mirror the index found in the reversed mask.
last_inside_idx_unmirrored(tl) == Len(tl) + 1 - last_inside_from(tl, Len(tl))

last_inside_idx(tl) == last_inside_from(tl, Len(tl))

inside_count(tl) == Cardinality({k \in 1..Len(tl) : tl[k].is_inside})

\* Lines 186-194
EmptyDuration(tl, source) ==
    [first_entry_time           |-> None,
     last_exit_time             |-> None,
     duration_in_envelope_hours |-> Zero,
     exposure_window_hours      |-> Zero,
     continuous_exposure        |-> FALSE,
     interpolated_points_count  |-> Len(tl),
     duration_source            |-> source]

calculate_duration_features(tl, interval) ==
    IF inside_count(tl) = 0 THEN EmptyDuration(tl, "timeline")
    ELSE LET first_idx == first_inside_idx(tl)
             last_idx  == last_inside_idx(tl)
         IN  [first_entry_time           |-> Int2Rat(tl[first_idx].date),
              last_exit_time             |-> Int2Rat(tl[last_idx].date),
              duration_in_envelope_hours |-> Rat(inside_count(tl) * interval, 60),
              exposure_window_hours      |-> Rat((last_idx - first_idx) * interval, 60),
              continuous_exposure        |->
                  \A k \in first_idx..last_idx : tl[k].is_inside,
              interpolated_points_count  |-> Len(tl),
              duration_source            |-> "timeline"]

\* A variant of candidate_polygon that falls back on the envelope whenever
\* the coverage does not contain the point.
candidate_polygon_lenient(cov, env) ==
    IF cov = "inside" THEN "coverage"
    ELSE IF env = "inside" THEN "envelope"
    ELSE "none"

\* A variant of candidate_polygon that asks the envelope before the coverage.
candidate_polygon_envelope_first(cov, env) ==
    IF env = "inside" THEN "envelope"
    ELSE IF cov = "inside" THEN "coverage"
    ELSE "none"

\* Lines 308-322: the polygon that may justify the fallback.
candidate_polygon(cov, env) ==
    IF cov = "inside" THEN "coverage"
    ELSE IF cov = "none" /\ env = "inside" THEN "envelope"
    ELSE "none"

\* identify_incomplete_wind_radii_boundary, lines 217-251
CompleteIndices(tl) == {k \in 1..Len(tl) : tl[k].complete}
first_complete_idx(tl) == CHOOSE k \in CompleteIndices(tl) :
                              \A j \in CompleteIndices(tl) : k <= j
last_complete_idx(tl)  == CHOOSE k \in CompleteIndices(tl) :
                              \A j \in CompleteIndices(tl) : k >= j

\* Lines 363-412
interpolate_duration_near_edge(tl, interval, dist) ==
    IF CompleteIndices(tl) = {} THEN EmptyDuration(tl, "edge_interpolation_failed")
    ELSE LET d == IF dist = None THEN Zero ELSE dist
             first_idx == first_complete_idx(tl)
             last_idx  == last_complete_idx(tl)
             max_duration_hours == Rat((last_idx - first_idx) * interval, 60)
             interpolated_duration ==
                 IF RatLe(edge_buffer_deg, d) THEN Rat(interval, 60)
                 ELSE RatMul(max_duration_hours, RatDiv(d, edge_buffer_deg))
         IN  [first_entry_time           |-> Int2Rat(tl[first_idx].date),
              last_exit_time             |-> Int2Rat(tl[last_idx].date),
              duration_in_envelope_hours |-> interpolated_duration,
              exposure_window_hours      |-> max_duration_hours,
              continuous_exposure        |-> FALSE,
              interpolated_points_count  |-> Len(tl),
              duration_source            |-> "edge_interpolation"]

\* Line 306
DurationFeatures ==
    /\ dur_pc = "timeline"
    /\ duration' = calculate_duration_features(exposure_timeline, dur_interval)
    /\ dur_pc' = "features"
    /\ UNCHANGED <<exposure_timeline, dur_interval, coverage, envelope, distance_to_edge>>
    /\ UNCHANGED notDurVars

\* Lines 325-336, the test fails: the timeline result is returned.  (An empty
\* timeline is only ever passed to calculate_duration_features directly.)
DurationReturnTimeline ==
    /\ dur_pc = "features"
    /\ exposure_timeline # <<>>
    /\ ~ (/\ duration.duration_in_envelope_hours = Zero
          /\ candidate_polygon(coverage, envelope) # "none")
    /\ dur_pc' = "done"
    /\ UNCHANGED <<exposure_timeline, dur_interval, coverage, envelope, distance_to_edge,
                   duration>>
    /\ UNCHANGED notDurVars

\* Lines 325-336, the test holds: the edge interpolation replaces the result.
DurationEdgeFallback ==
    /\ dur_pc = "features"
    /\ exposure_timeline # <<>>
    /\ duration.duration_in_envelope_hours = Zero
    /\ candidate_polygon(coverage, envelope) # "none"
    /\ duration' = interpolate_duration_near_edge(exposure_timeline, dur_interval,
                                                  distance_to_edge)
    /\ dur_pc' = "done"
    /\ UNCHANGED <<exposure_timeline, dur_interval, coverage, envelope, distance_to_edge>>
    /\ UNCHANGED notDurVars

---------------------------------------------------------------------------
(* LeadTimeCalculator:                                                     *)
(* src/02_transformations/lead_time/src/lead_time_calculator.py.           *)
(* Timestamps are minutes; a lead time is a rational number of hours.      *)

\* Most observations in a lead-time track.
MaxLeadObs == 2

\* Lines 17-23
CATEGORY_THRESHOLDS == [cat1 |-> 64, cat2 |-> 83, cat3 |-> 96, cat4 |-> 113, cat5 |-> 137]

\* Line 132 (and the iteration order of CATEGORY_THRESHOLDS)
categories == <<"cat1", "cat2", "cat3", "cat4", "cat5">>

\* f'lead_time_{category}_hours'
LeadKey == [cat1 |-> "lead_time_cat1_hours", cat2 |-> "lead_time_cat2_hours",
            cat3 |-> "lead_time_cat3_hours", cat4 |-> "lead_time_cat4_hours",
            cat5 |-> "lead_time_cat5_hours"]
LeadKeys == {LeadKey[categories[i]] : i \in 1..Len(categories)}

LeadDateChoices == {0, 720, 750}
LeadWindChoices == {NaN, Int2Rat(63), Int2Rat(64), Int2Rat(83), Int2Rat(96), Int2Rat(113),
                    Int2Rat(137)}
ApproachChoices == {0, 360, 3240}
LeadRows == [date : LeadDateChoices, max_wind : LeadWindChoices]

\* test_hurricane_ida_realistic_scenario: 40, 75, 90, 105, 130 kt every 12 hours
IdaTrack == <<[date |-> 0,    max_wind |-> Int2Rat(40)],
              [date |-> 720,  max_wind |-> Int2Rat(75)],
              [date |-> 1440, max_wind |-> Int2Rat(90)],
              [date |-> 2160, max_wind |-> Int2Rat(105)],
              [date |-> 2880, max_wind |-> Int2Rat(130)]>>

LeadTracks == (UNION {[1..n -> LeadRows] : n \in 0..MaxLeadObs}) \cup {IdaTrack}

LeadValueChoices == {None, Int2Rat(-6), Zero, Int2Rat(6), Int2Rat(7), Int2Rat(13)}

\* A variant of reaches in which a wind equal to the threshold does not count.
reaches_strictly(max_wind, threshold_kt) ==
    notna(max_wind) /\ RatLt(Int2Rat(threshold_kt), max_wind)

\* Line 49: max_wind >= threshold_kt (False for a missing wind)
reaches(max_wind, threshold_kt) == notna(max_wind) /\ RatLe(Int2Rat(threshold_kt), max_wind)

\* A variant of min_date that returns the latest date of the observations.
RECURSIVE max_date(_)
max_date(obs) ==
    IF Len(obs) = 1 THEN obs[1].date
    ELSE LET rest == max_date(Tail(obs))
         IN  IF obs[1].date >= rest THEN obs[1].date ELSE rest

\* Line 55: threshold_obs['date'].min()
RECURSIVE min_date(_)
min_date(obs) ==
    IF Len(obs) = 1 THEN obs[1].date
    ELSE LET rest == min_date(Tail(obs))
         IN  IF obs[1].date <= rest THEN obs[1].date ELSE rest

\* Lines 26-55
find_category_threshold_time(df, threshold_kt) ==
    LET threshold_obs == SelectSeq(df, LAMBDA row : reaches(row.max_wind, threshold_kt))
    IN  IF threshold_obs = <<>> THEN None ELSE Int2Rat(min_date(threshold_obs))

\* Lines 106-107: time_diff.total_seconds() / 3600.0
lead_time_hours(approach, threshold_time) ==
    RatDiv(RatMul(RatSub(Int2Rat(approach), threshold_time), Int2Rat(60)), Int2Rat(3600))

\* One iteration of the loop at lines 97-109.
LeadCategory ==
    /\ lead_pc = "loop"
    /\ lead_cat <= Len(categories)
    /\ \E threshold_time \in {find_category_threshold_time(
                                 lead_track_df, CATEGORY_THRESHOLDS[categories[lead_cat]])} :
          lead_times' = lead_times @@
              (LeadKey[categories[lead_cat]] :>
                  (IF threshold_time = None THEN None
                   ELSE lead_time_hours(nearest_approach_time, threshold_time)))
    /\ lead_cat' = lead_cat + 1
    /\ UNCHANGED <<lead_track_df, nearest_approach_time, lead_valid, lead_pc>>
    /\ UNCHANGED notLeadVars

\* Line 111
LeadReturn ==
    /\ lead_pc = "loop"
    /\ lead_cat > Len(categories)
    /\ lead_pc' = "returned"
    /\ UNCHANGED <<lead_track_df, nearest_approach_time, lead_times, lead_cat, lead_valid>>
    /\ UNCHANGED notLeadVars

\* Lines 136-141: False as soon as a value follows a None
RECURSIVE none_only_at_end(_, _, _)
none_only_at_end(values, i, found_none) ==
    IF i > Len(values) THEN TRUE
    ELSE IF found_none /\ values[i] # None THEN FALSE
    ELSE none_only_at_end(values, i + 1, found_none \/ values[i] = None)

\* A variant of increases_significantly that also rejects an increase of exactly 6 hours.
increases_significantly_inclusive(lower, higher) ==
    RatLe(lower, RatSub(higher, Int2Rat(6)))

\* Line 149: non_none_values[i] < non_none_values[i + 1] - 6.0
increases_significantly(lower, higher) == RatLt(lower, RatSub(higher, Int2Rat(6)))

\* Lines 114-152
validate_lead_times(lt) ==
    LET values == [i \in 1..Len(categories) |-> lt[LeadKey[categories[i]]]]
        non_none_values == SelectSeq(values, LAMBDA v : v # None)
    IN  /\ none_only_at_end(values, 1, FALSE)
        /\ \A i \in 1..(Len(non_none_values) - 1) :
              ~ increases_significantly(non_none_values[i], non_none_values[i + 1])

ValidateLeadTimes ==
    /\ lead_pc \in {"returned", "validate"}
    /\ lead_valid' = validate_lead_times(lead_times)
    /\ lead_pc' = "validated"
    /\ UNCHANGED <<lead_track_df, nearest_approach_time, lead_times, lead_cat>>
    /\ UNCHANGED notLeadVars

---------------------------------------------------------------------------
(* WindFieldEstimator: calculate_max_wind_experienced,                     *)
(* src/hurdat2_census/src/wind_interpolation.py lines 201-306.             *)
(* The geometry (nearest track point, haversine distances, the ray to the  *)
(* envelope edge, the quadrant of the centroid) is an input: the model     *)
(* starts from the distances in nautical miles.                            *)

CenterWindChoices   == {Int2Rat(50), Int2Rat(64), Int2Rat(100), Int2Rat(120)}
RmwChoices          == {NaN, Zero, Int2Rat(20), Int2Rat(25)}
CentroidDistChoices == {Zero, Int2Rat(10), Int2Rat(20), Rat(2000001, 100000),
                        Rat(200001, 10000), Int2Rat(25), Int2Rat(40), Int2Rat(100),
                        Int2Rat(130)}
RayExitChoices      == {None, Int2Rat(20), Int2Rat(100), Int2Rat(120)}
QuadRadiusChoices   == {NaN, Int2Rat(30), Int2Rat(150)}

\* wind_radii=None
NoWindRadii == [given |-> FALSE, r64 |-> NaN, r50 |-> NaN, r34 |-> NaN]

\* r64/r50/r34: the radius in the centroid's quadrant, NaN when the threshold
\* lacks a quadrant (line 179).
WindRadiiChoices ==
    {NoWindRadii} \cup
    [given : {TRUE}, r64 : QuadRadiusChoices, r50 : QuadRadiusChoices, r34 : QuadRadiusChoices]

NoWindResult ==
    [max_wind_experienced_kt |-> Zero, center_wind_at_approach_kt |-> Zero,
     distance_to_envelope_edge_nm |-> Zero, radius_max_wind_at_approach_nm |-> Zero,
     inside_eyewall |-> FALSE, wind_source |-> "", decay_fraction |-> None]

RatAbs(a) == IF RatLt(a, Zero) THEN RatSub(Zero, a) ELSE a

\* math.isclose(a, b, rel_tol=1e-6): |a - b| <= 1e-6 * max(|a|, |b|).  The
\* distances are below 10^6, so a difference of 1 or more is never close.
isclose_rel(a, b) ==
    /\ RatLt(RatAbs(RatSub(a, b)), One)
    /\ RatLe(RatMul(RatAbs(RatSub(a, b)), Int2Rat(1000000)), RatMax(RatAbs(a), RatAbs(b)))

\* math.isclose(x, 0.0) with the default tolerances (relative 1e-9, absolute 0)
isclose_zero(x) == x = Zero

\* Lines 64-73
estimate_rmw_from_wind(cw) ==
    IF cw = None \/ isna(cw) THEN Int2Rat(30)
    ELSE IF RatLe(Int2Rat(96), cw) THEN Int2Rat(20)
    ELSE IF RatLe(Int2Rat(64), cw) THEN Int2Rat(30)
    ELSE Int2Rat(40)

\* Lines 76-128, given the interpolated observation
interpolate_radius_max_wind_at_point(observed, cw) ==
    IF isna(observed) THEN estimate_rmw_from_wind(cw) ELSE observed

\* Lines 131-157: 0.0 when the centroid is on the track point
calculate_ray_envelope_intersection(dist, ray_exit) ==
    IF dist = Zero THEN Zero ELSE ray_exit

\* Lines 160-198
check_inside_wind_radii_quadrilateral(dist, radius) ==
    notna(radius) /\ RatLe(dist, radius)

\* A variant of is_inside_eyewall without the tolerance.
is_inside_eyewall_exact(dist, rmw) == RatLe(dist, rmw)

\* Lines 242-244
is_inside_eyewall(dist, rmw) == RatLe(dist, rmw) \/ isclose_rel(dist, rmw)

\* Lines 259, 271, 282, 293
decay_fraction_of(dist, rmw, edge) ==
    LET decay_distance == RatMax(RatSub(dist, rmw), Zero)
        decay_range    == RatMax(RatSub(edge, rmw), Zero)
    IN  IF isclose_zero(decay_range) THEN None
        ELSE RatMin(RatMax(RatDiv(decay_distance, decay_range), Zero), One)

\* Lines 256-260 and their copies: the wind decayed towards target
decayed_wind(cw, fraction, target) ==
    IF fraction = None THEN cw
    ELSE RatSub(cw, RatMul(fraction, RatSub(cw, target)))

\* Lines 221-227
WindApproach ==
    /\ wind_pc = "start"
    /\ calculate_ray_envelope_intersection(centroid_dist_nm, ray_exit_nm) # None
    /\ rmw_at_approach' =
          RatMax(interpolate_radius_max_wind_at_point(rmw_observed, center_wind), Zero)
    /\ edge_dist_nm' = calculate_ray_envelope_intersection(centroid_dist_nm, ray_exit_nm)
    /\ wind_pc' = "approach"
    /\ UNCHANGED <<center_wind, rmw_observed, centroid_dist_nm, ray_exit_nm, wind_radii,
                   wind_result>>
    /\ UNCHANGED notWindVars

\* Line 149: the ray misses the envelope boundary, ValueError
WindRayError ==
    /\ wind_pc = "start"
    /\ calculate_ray_envelope_intersection(centroid_dist_nm, ray_exit_nm) = None
    /\ wind_pc' = "error"
    /\ UNCHANGED <<center_wind, rmw_observed, rmw_at_approach, centroid_dist_nm, ray_exit_nm,
                   edge_dist_nm, wind_radii, wind_result>>
    /\ UNCHANGED notWindVars

\* Lines 229-306: the returned dictionary, given the approach values
max_wind_record(cw, rmw, dist, edge, radii) ==
    LET inside_64kt == radii.given /\
            check_inside_wind_radii_quadrilateral(dist, radii.r64)
        inside_50kt == radii.given /\ ~ inside_64kt /\
            check_inside_wind_radii_quadrilateral(dist, radii.r50)
        inside_34kt == radii.given /\ ~ inside_64kt /\ ~ inside_50kt /\
            check_inside_wind_radii_quadrilateral(dist, radii.r34)
        inside_eyewall == is_inside_eyewall(dist, rmw)
        fraction == IF inside_eyewall THEN None
                    ELSE decay_fraction_of(dist, rmw, edge)
    IN
        [max_wind_experienced_kt |->
             IF inside_eyewall THEN cw
             ELSE IF fraction = None THEN cw
             ELSE IF inside_64kt
                  THEN RatMax(decayed_wind(cw, fraction, Int2Rat(64)), Int2Rat(64))
             ELSE IF inside_50kt
                  THEN RatMax(decayed_wind(cw, fraction, Int2Rat(50)), Int2Rat(50))
             ELSE IF inside_34kt
                  THEN RatMax(decayed_wind(cw, fraction, Int2Rat(34)), Int2Rat(34))
             ELSE decayed_wind(cw, fraction, Int2Rat(64)),
         center_wind_at_approach_kt |-> cw,
         distance_to_envelope_edge_nm |->
             RatMax(RatSub(edge, dist), Zero),
         radius_max_wind_at_approach_nm |-> rmw,
         inside_eyewall |-> inside_eyewall,
         wind_source |->
             IF inside_eyewall THEN "rmw_plateau"
             ELSE IF inside_64kt THEN "rmw_decay_to_64kt"
             ELSE IF inside_50kt THEN "rmw_decay_to_50kt"
             ELSE IF inside_34kt THEN "rmw_decay_to_34kt"
             ELSE "rmw_decay_to_envelope",
         decay_fraction |-> fraction]

\* Lines 229-306
WindResult ==
    /\ wind_pc = "approach"
    /\ wind_result' = max_wind_record(center_wind, rmw_at_approach, centroid_dist_nm,
                                      edge_dist_nm, wind_radii)
    /\ wind_pc' = "done"
    /\ UNCHANGED <<center_wind, rmw_observed, rmw_at_approach, centroid_dist_nm, ray_exit_nm,
                   edge_dist_nm, wind_radii>>
    /\ UNCHANGED notWindVars

---------------------------------------------------------------------------
(* InstantaneousWindPolygon: create_instantaneous_wind_polygon,            *)
(* src/02_transformations/duration/src/duration_calculator.py lines 73-156.*)
(* The footprint is described by its kind, the number of coordinates it    *)
(* was built from and whether the geometry is empty.                       *)

\* Line 82
arc_points_per_quadrant == 30

\* A radius as a caller passes it: missing (NaN, or None from row.get), zero
\* (an imputed 0.0), negative, or positive.
PolyRadiusChoices == {NaN, None, Zero, Int2Rat(-5), Int2Rat(30), Int2Rat(60)}

\* Line 81 (0.02) and storm_tract_distance.py line 148 (0.0)
BufferChoices == {Rat(1, 50), Zero}

NoPolygon == [kind |-> "null", n_points |-> 0, is_empty |-> TRUE]

\* Line 100
valid_quadrants(radii) == {q \in Quads : notna(radii[q]) /\ RatLt(Zero, radii[q])}

\* geometry.buffer(distance) of a point or a line: the buffer of a geometry
\* without area is empty unless the distance is positive.
buffer_is_empty(distance) == RatLe(distance, Zero)

\* Lines 105-119
sparse_footprint(n_valid, distance) ==
    [kind     |-> IF n_valid = 1 THEN "buffered_point" ELSE "buffered_line",
     n_points |-> n_valid,
     is_empty |-> buffer_is_empty(distance)]

\* Lines 122-144: the first arc keeps all its samples, the next ones drop
\* their first point.
arc_coords_count(n_valid) ==
    LET sample_count == IF arc_points_per_quadrant < 2 THEN 2 ELSE arc_points_per_quadrant
    IN  IF n_valid = 0 THEN 0 ELSE sample_count + (n_valid - 1) * (sample_count - 1)

\* envelope_algorithm.py lines 74-79: the bearings of each quadrant arc
QUADRANT_BEARING_RANGES ==
    [ne |-> <<45, 135>>, se |-> <<135, 225>>, sw |-> <<225, 315>>, nw |-> <<315, 405>>]

\* generate_quadrant_arc_points (envelope_algorithm.py lines 82-124).  A
\* sampled point is the destination at a bearing (degrees, modulo 360) and
\* a radius from the fixed centre.
generate_quadrant_arc_points(quad, radius, num_points) ==
    IF ~ (notna(radius) /\ RatLt(Zero, radius)) THEN <<>>
    ELSE LET sample_count == IF num_points < 2 THEN 2 ELSE num_points
             start_bearing == QUADRANT_BEARING_RANGES[quad][1]
             end_bearing   == QUADRANT_BEARING_RANGES[quad][2]
         IN  [k \in 1..sample_count |->
                 [bearing |-> Rat((start_bearing * (sample_count - 1)
                                     + (k - 1) * (end_bearing - start_bearing))
                                  % (360 * (sample_count - 1)),
                                  sample_count - 1),
                  radius  |-> radius]]

\* Lines 137-144: an arc is appended to the vertex list
extend_arc_coords(coords, arc_points) ==
    IF arc_points = <<>> THEN coords
    ELSE IF coords # <<>> THEN coords \o Tail(arc_points)
    ELSE coords \o arc_points

\* Lines 122-144: the loop over the quadrants, in the order ne, se, sw, nw
RECURSIVE arc_coords_loop(_, _, _, _)
arc_coords_loop(qs, radii, num_points, coords) ==
    IF qs = <<>> THEN coords
    ELSE arc_coords_loop(Tail(qs), radii, num_points,
             extend_arc_coords(coords,
                 generate_quadrant_arc_points(Head(qs), radii[Head(qs)], num_points)))

arc_coords_of(radii, num_points) == arc_coords_loop(quadrants, radii, num_points, <<>>)

\* Polygon(arc_coords).exterior.coords: the shell is closed with a copy of
\* its first coordinate unless it ends there already.
exterior_coords(coords) ==
    IF coords[Len(coords)] = coords[1] THEN coords ELSE Append(coords, coords[1])

\* Lines 146-156
arc_footprint(n_valid, distance) ==
    IF arc_coords_count(n_valid) < 3
    THEN [kind |-> "buffered_line", n_points |-> arc_coords_count(n_valid),
          is_empty |-> buffer_is_empty(distance)]
    ELSE [kind |-> "arc_polygon", n_points |-> arc_coords_count(n_valid),
          is_empty |-> FALSE]

\* A variant of the test of line 105 that sends two quadrants to the arc sampler.
is_sparse_single(n_valid) == n_valid <= 1

\* Line 105
is_sparse(n_valid) == n_valid <= 2

\* A variant of the test of line 101 that never gives up.
no_valid_quadrant_never(radii) == FALSE

\* Line 101
no_valid_quadrant(radii) == valid_quadrants(radii) = {}

\* The whole function, lines 93-156
create_instantaneous_wind_polygon(radii, distance) ==
    IF no_valid_quadrant(radii) THEN NoPolygon
    ELSE IF is_sparse(Cardinality(valid_quadrants(radii)))
         THEN sparse_footprint(Cardinality(valid_quadrants(radii)), distance)
    ELSE arc_footprint(Cardinality(valid_quadrants(radii)), distance)

\* Lines 100-102
PolygonNone ==
    /\ poly_pc = "start"
    /\ no_valid_quadrant(poly_radii)
    /\ wind_polygon' = create_instantaneous_wind_polygon(poly_radii, buffer_deg)
    /\ poly_pc' = "done"
    /\ UNCHANGED <<poly_radii, buffer_deg, arc_coords>>
    /\ UNCHANGED notPolyVars

\* Lines 105-119
PolygonSparse ==
    /\ poly_pc = "start"
    /\ ~ no_valid_quadrant(poly_radii)
    /\ is_sparse(Cardinality(valid_quadrants(poly_radii)))
    /\ wind_polygon' = create_instantaneous_wind_polygon(poly_radii, buffer_deg)
    /\ poly_pc' = "done"
    /\ UNCHANGED <<poly_radii, buffer_deg, arc_coords>>
    /\ UNCHANGED notPolyVars

\* Lines 121-156
PolygonArcs ==
    /\ poly_pc = "start"
    /\ ~ no_valid_quadrant(poly_radii)
    /\ ~ is_sparse(Cardinality(valid_quadrants(poly_radii)))
    /\ arc_coords' = arc_coords_of(poly_radii, arc_points_per_quadrant)
    /\ wind_polygon' = create_instantaneous_wind_polygon(poly_radii, buffer_deg)
    /\ poly_pc' = "done"
    /\ UNCHANGED <<poly_radii, buffer_deg>>
    /\ UNCHANGED notPolyVars

---------------------------------------------------------------------------
(* The per-point loop of run_pipeline,                                     *)
(* src/02_transformations/storm_tract_distance/src/storm_tract_distance.py *)
(* lines 285-353: each point's wind is evaluated by                        *)
(* calculate_max_wind_experienced, a ValueError becomes a sentinel row.    *)
(* The duration and lead-time rows of the same iteration are the subject   *)
(* of the duration and lead-time components.                               *)

\* Most points in one pipeline run.
MaxPoints == 2

\* What the evaluation of one point depends on.
PointChoices ==
    [center_wind      : {Int2Rat(50), Int2Rat(100)},
     rmw_observed     : {Int2Rat(20)},
     centroid_dist_nm : {Zero, Int2Rat(25), Int2Rat(40)},
     ray_exit_nm      : {None, Int2Rat(100)},
     wind_radii       : {NoWindRadii,
                         [given |-> TRUE, r64 |-> Int2Rat(30), r50 |-> NaN, r34 |-> NaN]}]

PointLists == UNION {[1..n -> PointChoices] : n \in 0..MaxPoints}

\* A variant of sentinel_wind_row that records a zero wind.
zero_wind_row ==
    [max_wind_experienced_kt |-> Zero, center_wind_at_approach_kt |-> Zero,
     distance_to_envelope_edge_nm |-> Zero, radius_max_wind_at_approach_nm |-> Zero,
     inside_eyewall |-> FALSE, wind_source |-> "rmw_decay_to_envelope",
     decay_fraction |-> None]

\* Lines 321-331
sentinel_wind_row ==
    [max_wind_experienced_kt |-> NaN, center_wind_at_approach_kt |-> NaN,
     distance_to_envelope_edge_nm |-> NaN, radius_max_wind_at_approach_nm |-> NaN,
     inside_eyewall |-> NaN, wind_source |-> "error", decay_fraction |-> None]

\* Lines 313-320: calculate_max_wind_experienced is entered for the point.
PipelineCall ==
    /\ pipe_pc = "loop"
    /\ pipe_idx <= Len(pipe_points)
    /\ center_wind' = pipe_points[pipe_idx].center_wind
    /\ rmw_observed' = pipe_points[pipe_idx].rmw_observed
    /\ centroid_dist_nm' = pipe_points[pipe_idx].centroid_dist_nm
    /\ ray_exit_nm' = pipe_points[pipe_idx].ray_exit_nm
    /\ wind_radii' = pipe_points[pipe_idx].wind_radii
    /\ wind_pc' = "start"
    /\ pipe_pc' = "call"
    /\ UNCHANGED <<rmw_at_approach, edge_dist_nm, wind_result>>
    /\ UNCHANGED <<pipe_points, wind_rows, pipe_idx>>
    /\ UNCHANGED <<imputeVars, segmentVars, interpVars, durVars, leadVars, polyVars, envVars>>

\* Line 332 after a normal return
PipelineRecord ==
    /\ pipe_pc = "call"
    /\ wind_pc = "done"
    /\ wind_rows' = Append(wind_rows, wind_result)
    /\ pipe_idx' = pipe_idx + 1
    /\ pipe_pc' = "loop"
    /\ UNCHANGED pipe_points
    /\ UNCHANGED notPipeVars

\* Lines 321-332: except ValueError
PipelineSentinel ==
    /\ pipe_pc = "call"
    /\ wind_pc = "error"
    /\ wind_rows' = Append(wind_rows, sentinel_wind_row)
    /\ pipe_idx' = pipe_idx + 1
    /\ pipe_pc' = "loop"
    /\ UNCHANGED pipe_points
    /\ UNCHANGED notPipeVars

\* Line 353: the loop is over
PipelineDone ==
    /\ pipe_pc = "loop"
    /\ pipe_idx > Len(pipe_points)
    /\ pipe_pc' = "done"
    /\ UNCHANGED <<pipe_points, wind_rows, pipe_idx>>
    /\ UNCHANGED notPipeVars

---------------------------------------------------------------------------
(* StormEnvelope: create_storm_envelope,                                   *)
(* src/hurdat2/src/envelope_algorithm.py lines 448-569.  A geometry is     *)
(* described by how it was built and whether it is empty; the segmentation *)
(* is the scan above.                                                      *)

\* Most steps in an enveloped track.
MaxEnvelopeLen == 7

\* Line 338: points sampled on each quadrant arc.
samples_per_quadrant == 30

EnvelopeSeries == UNION {[1..n -> BOOLEAN] : n \in 0..MaxEnvelopeLen}

NoEnvelopeResult == [envelope |-> "unset", centerline_points |-> 0, hull_points |-> 0]

\* Line 559: the null result
NullEnvelope == [envelope |-> "null", centerline_points |-> 0, hull_points |-> 0]

\* The steps of segment seg
segment_rows(ids, seg) == {i \in 1..Len(ids) : ids[i] = seg}

\* Lines 524-536: the track points of the segment and, for each step with
\* radii, the arc samples of its valid quadrants.
collected_points(ids, radii_flags, quadrant_count, seg) ==
    Cardinality(segment_rows(ids, seg))
    + Cardinality({i \in segment_rows(ids, seg) : radii_flags[i]})
      * quadrant_count * samples_per_quadrant

\* A variant of hull_method that hulls any three or more points alike.
hull_method_alpha_from_three(n_points) ==
    IF n_points >= 3 THEN "alpha_shape" ELSE "none"

\* Lines 541-546
hull_method(n_points) ==
    IF n_points >= 4 THEN "alpha_shape"
    ELSE IF n_points >= 3 THEN "convex_hull"
    ELSE "none"

\* alpha_shape (lines 393-446) returns the union of the triangles it keeps,
\* which is empty when every circumradius is 1/alpha or more; the convex
\* hull of three points is never empty.
hull_may_be_empty(method) == IF method = "alpha_shape" THEN BOOLEAN ELSE {FALSE}

RECURSIVE sum_points(_, _)
sum_points(hull_log, k) ==
    IF k = 0 THEN 0 ELSE hull_log[k].n_points + sum_points(hull_log, k - 1)

\* Lines 549-558: the union skips empty geometries.
final_geom_is_none(hull_log) ==
    \A k \in 1..Len(hull_log) : hull_log[k].method = "none" \/ hull_log[k].is_empty

\* Line 487: the imputer returns an empty table as it is (line 165), without
\* the effective columns; line 490 selects them: KeyError.
EnvelopeKeyError ==
    /\ env_pc = "start"
    /\ env_has_radii = <<>>
    /\ env_pc' = "raised"
    /\ UNCHANGED <<env_has_radii, env_quadrants, hulls, env_result>>
    /\ UNCHANGED notEnvVars

\* Lines 487-506
EnvelopePrepare ==
    /\ env_pc = "start"
    /\ env_has_radii # <<>>
    /\ has_radii' = env_has_radii
    /\ segment_ids' = <<>>
    /\ current_segment' = 1
    /\ gap_counter' = 0
    /\ in_gap' = FALSE
    /\ segment_pc' = "scan"
    /\ env_pc' = "segments"
    /\ UNCHANGED <<env_has_radii, env_quadrants, hulls, env_result>>
    /\ UNCHANGED <<imputeVars, interpVars, durVars, leadVars, windVars, polyVars, pipeVars>>

\* Lines 522-547: one iteration of the loop over the segments
EnvelopeHull ==
    /\ env_pc = "segments"
    /\ segment_pc = "done"
    /\ Len(hulls) < current_segment
    /\ \E n \in {collected_points(segment_ids, has_radii, env_quadrants, Len(hulls) + 1)} :
       \E empty \in hull_may_be_empty(hull_method(n)) :
          hulls' = Append(hulls, [n_points |-> n,
                                  method   |-> hull_method(n),
                                  is_empty |-> empty])
    /\ UNCHANGED <<env_has_radii, env_quadrants, env_result, env_pc>>
    /\ UNCHANGED notEnvVars

\* Lines 549-569
EnvelopeReturn ==
    /\ env_pc = "segments"
    /\ segment_pc = "done"
    /\ Len(hulls) = current_segment
    /\ final_geom_is_none(hulls) \/ Len(has_radii) >= 2
    /\ env_result' =
          IF final_geom_is_none(hulls) THEN NullEnvelope
          ELSE [envelope          |-> "geometry",
                centerline_points |-> Len(has_radii),
                hull_points       |-> sum_points(hulls, Len(hulls))]
    /\ env_pc' = "returned"
    /\ UNCHANGED <<env_has_radii, env_quadrants, hulls>>
    /\ UNCHANGED notEnvVars

\* Line 561: a centre line cannot be built from a single point.
EnvelopeLineError ==
    /\ env_pc = "segments"
    /\ segment_pc = "done"
    /\ Len(hulls) = current_segment
    /\ ~ final_geom_is_none(hulls)
    /\ Len(has_radii) < 2
    /\ env_pc' = "raised"
    /\ UNCHANGED <<env_has_radii, env_quadrants, hulls, env_result>>
    /\ UNCHANGED notEnvVars

---------------------------------------------------------------------------
(* Specifications.  Each Init is the state right after the component's  *)
(* set-up code, with every other component idle.                           *)

\* impute_missing_wind_radii after lines 164-186
InitImpute ==
    /\ storm_track \in RawTracks
    /\ track = InitialWorkingTrack(storm_track)
    /\ imputable_mask = identify_imputable_segments(track)
    /\ position = 1
    /\ last_known_ratio = One
    /\ impute_pc = "loop"
    /\ first_output = <<>>
    /\ impute_run = 1
    /\ has_radii = <<>>
    /\ segment_ids = <<>>
    /\ current_segment = 1
    /\ gap_counter = 0
    /\ in_gap = FALSE
    /\ segment_pc = "idle"
    /\ track_df = <<>>
    /\ interval_minutes = 15
    /\ track_sorted = <<>>
    /\ records = <<>>
    /\ idx = 0
    /\ interp_pc = "idle"
    /\ exposure_timeline = <<>>
    /\ dur_interval = 15
    /\ coverage = "none"
    /\ envelope = "none"
    /\ distance_to_edge = None
    /\ duration = EmptyDuration(<<>>, "timeline")
    /\ dur_pc = "idle"
    /\ lead_track_df = <<>>
    /\ nearest_approach_time = 0
    /\ lead_times = <<>>
    /\ lead_cat = 0
    /\ lead_valid = FALSE
    /\ lead_pc = "idle"
    /\ center_wind = Zero
    /\ rmw_observed = NaN
    /\ rmw_at_approach = Zero
    /\ centroid_dist_nm = Zero
    /\ ray_exit_nm = None
    /\ edge_dist_nm = Zero
    /\ wind_radii = NoWindRadii
    /\ wind_result = NoWindResult
    /\ wind_pc = "idle"
    /\ poly_radii = [q \in Quads |-> NaN]
    /\ buffer_deg = Zero
    /\ wind_polygon = NoPolygon
    /\ arc_coords = <<>>
    /\ poly_pc = "idle"
    /\ pipe_points = <<>>
    /\ wind_rows = <<>>
    /\ pipe_idx = 0
    /\ pipe_pc = "idle"
    /\ env_has_radii = <<>>
    /\ env_quadrants = 1
    /\ hulls = <<>>
    /\ env_result = NoEnvelopeResult
    /\ env_pc = "idle"

NextImpute == ImputeRow \/ ImputeReturn
SpecImpute == InitImpute /\ [][NextImpute]_vars

InitReimpute ==
    /\ storm_track \in RerunTracks
    /\ track = InitialWorkingTrack(storm_track)
    /\ imputable_mask = identify_imputable_segments(track)
    /\ position = 1
    /\ last_known_ratio = One
    /\ impute_pc = "loop"
    /\ first_output = <<>>
    /\ impute_run = 1
    /\ has_radii = <<>>
    /\ segment_ids = <<>>
    /\ current_segment = 1
    /\ gap_counter = 0
    /\ in_gap = FALSE
    /\ segment_pc = "idle"
    /\ track_df = <<>>
    /\ interval_minutes = 15
    /\ track_sorted = <<>>
    /\ records = <<>>
    /\ idx = 0
    /\ interp_pc = "idle"
    /\ exposure_timeline = <<>>
    /\ dur_interval = 15
    /\ coverage = "none"
    /\ envelope = "none"
    /\ distance_to_edge = None
    /\ duration = EmptyDuration(<<>>, "timeline")
    /\ dur_pc = "idle"
    /\ lead_track_df = <<>>
    /\ nearest_approach_time = 0
    /\ lead_times = <<>>
    /\ lead_cat = 0
    /\ lead_valid = FALSE
    /\ lead_pc = "idle"
    /\ center_wind = Zero
    /\ rmw_observed = NaN
    /\ rmw_at_approach = Zero
    /\ centroid_dist_nm = Zero
    /\ ray_exit_nm = None
    /\ edge_dist_nm = Zero
    /\ wind_radii = NoWindRadii
    /\ wind_result = NoWindResult
    /\ wind_pc = "idle"
    /\ poly_radii = [q \in Quads |-> NaN]
    /\ buffer_deg = Zero
    /\ wind_polygon = NoPolygon
    /\ arc_coords = <<>>
    /\ poly_pc = "idle"
    /\ pipe_points = <<>>
    /\ wind_rows = <<>>
    /\ pipe_idx = 0
    /\ pipe_pc = "idle"
    /\ env_has_radii = <<>>
    /\ env_quadrants = 1
    /\ hulls = <<>>
    /\ env_result = NoEnvelopeResult
    /\ env_pc = "idle"

NextReimpute == ImputeRow \/ ImputeReturn \/ ImputeRerun

SpecReimpute == InitReimpute /\ [][NextReimpute]_vars

\* create_storm_envelope after lines 503-506
InitSegment ==
    /\ has_radii \in HasRadiiSeries
    /\ segment_ids = <<>>
    /\ current_segment = 1
    /\ gap_counter = 0
    /\ in_gap = FALSE
    /\ segment_pc = "scan"
    /\ storm_track = <<>>
    /\ track = <<>>
    /\ imputable_mask = <<>>
    /\ position = 0
    /\ last_known_ratio = One
    /\ impute_pc = "idle"
    /\ first_output = <<>>
    /\ impute_run = 1
    /\ track_df = <<>>
    /\ interval_minutes = 15
    /\ track_sorted = <<>>
    /\ records = <<>>
    /\ idx = 0
    /\ interp_pc = "idle"
    /\ exposure_timeline = <<>>
    /\ dur_interval = 15
    /\ coverage = "none"
    /\ envelope = "none"
    /\ distance_to_edge = None
    /\ duration = EmptyDuration(<<>>, "timeline")
    /\ dur_pc = "idle"
    /\ lead_track_df = <<>>
    /\ nearest_approach_time = 0
    /\ lead_times = <<>>
    /\ lead_cat = 0
    /\ lead_valid = FALSE
    /\ lead_pc = "idle"
    /\ center_wind = Zero
    /\ rmw_observed = NaN
    /\ rmw_at_approach = Zero
    /\ centroid_dist_nm = Zero
    /\ ray_exit_nm = None
    /\ edge_dist_nm = Zero
    /\ wind_radii = NoWindRadii
    /\ wind_result = NoWindResult
    /\ wind_pc = "idle"
    /\ poly_radii = [q \in Quads |-> NaN]
    /\ buffer_deg = Zero
    /\ wind_polygon = NoPolygon
    /\ arc_coords = <<>>
    /\ poly_pc = "idle"
    /\ pipe_points = <<>>
    /\ wind_rows = <<>>
    /\ pipe_idx = 0
    /\ pipe_pc = "idle"
    /\ env_has_radii = <<>>
    /\ env_quadrants = 1
    /\ hulls = <<>>
    /\ env_result = NoEnvelopeResult
    /\ env_pc = "idle"

NextSegment == ScanStep \/ ScanDone
SpecSegment == InitSegment /\ [][NextSegment]_vars

\* interpolate_track_temporal entered with a track that has a date column
InitInterp ==
    /\ track_df \in InterpTracks
    /\ interval_minutes \in IntervalChoices
    /\ track_sorted = <<>>
    /\ records = <<>>
    /\ idx = 0
    /\ interp_pc = "sort"
    /\ storm_track = <<>>
    /\ track = <<>>
    /\ imputable_mask = <<>>
    /\ position = 0
    /\ last_known_ratio = One
    /\ impute_pc = "idle"
    /\ first_output = <<>>
    /\ impute_run = 1
    /\ has_radii = <<>>
    /\ segment_ids = <<>>
    /\ current_segment = 1
    /\ gap_counter = 0
    /\ in_gap = FALSE
    /\ segment_pc = "idle"
    /\ exposure_timeline = <<>>
    /\ dur_interval = 15
    /\ coverage = "none"
    /\ envelope = "none"
    /\ distance_to_edge = None
    /\ duration = EmptyDuration(<<>>, "timeline")
    /\ dur_pc = "idle"
    /\ lead_track_df = <<>>
    /\ nearest_approach_time = 0
    /\ lead_times = <<>>
    /\ lead_cat = 0
    /\ lead_valid = FALSE
    /\ lead_pc = "idle"
    /\ center_wind = Zero
    /\ rmw_observed = NaN
    /\ rmw_at_approach = Zero
    /\ centroid_dist_nm = Zero
    /\ ray_exit_nm = None
    /\ edge_dist_nm = Zero
    /\ wind_radii = NoWindRadii
    /\ wind_result = NoWindResult
    /\ wind_pc = "idle"
    /\ poly_radii = [q \in Quads |-> NaN]
    /\ buffer_deg = Zero
    /\ wind_polygon = NoPolygon
    /\ arc_coords = <<>>
    /\ poly_pc = "idle"
    /\ pipe_points = <<>>
    /\ wind_rows = <<>>
    /\ pipe_idx = 0
    /\ pipe_pc = "idle"
    /\ env_has_radii = <<>>
    /\ env_quadrants = 1
    /\ hulls = <<>>
    /\ env_result = NoEnvelopeResult
    /\ env_pc = "idle"

NextInterp == InterpSort \/ InterpGap \/ InterpReturn \/ InterpIndexError
SpecInterp == InitInterp /\ [][NextInterp]_vars

\* calculate_duration_for_tract after line 305: the exposure timeline is built
InitDuration ==
    /\ dur_interval \in DurIntervalChoices
    /\ \E n \in 0..MaxTimelineLen :
       \E ins \in [1..n -> BOOLEAN] :
       \E comp \in [1..n -> BOOLEAN] :
       \E irregular_at \in 0..(IF n = 0 THEN 0 ELSE n - 1) :
          exposure_timeline =
              [k \in 1..n |-> [date      |-> TimelineDate(k, dur_interval, irregular_at),
                               is_inside |-> ins[k],
                               complete  |-> comp[k]]]
    /\ coverage \in PolygonChoices
    /\ envelope \in PolygonChoices
    /\ distance_to_edge \in DistanceChoices
    /\ duration = EmptyDuration(<<>>, "timeline")
    /\ dur_pc = "timeline"
    /\ storm_track = <<>>
    /\ track = <<>>
    /\ imputable_mask = <<>>
    /\ position = 0
    /\ last_known_ratio = One
    /\ impute_pc = "idle"
    /\ first_output = <<>>
    /\ impute_run = 1
    /\ has_radii = <<>>
    /\ segment_ids = <<>>
    /\ current_segment = 1
    /\ gap_counter = 0
    /\ in_gap = FALSE
    /\ segment_pc = "idle"
    /\ track_df = <<>>
    /\ interval_minutes = 15
    /\ track_sorted = <<>>
    /\ records = <<>>
    /\ idx = 0
    /\ interp_pc = "idle"
    /\ lead_track_df = <<>>
    /\ nearest_approach_time = 0
    /\ lead_times = <<>>
    /\ lead_cat = 0
    /\ lead_valid = FALSE
    /\ lead_pc = "idle"
    /\ center_wind = Zero
    /\ rmw_observed = NaN
    /\ rmw_at_approach = Zero
    /\ centroid_dist_nm = Zero
    /\ ray_exit_nm = None
    /\ edge_dist_nm = Zero
    /\ wind_radii = NoWindRadii
    /\ wind_result = NoWindResult
    /\ wind_pc = "idle"
    /\ poly_radii = [q \in Quads |-> NaN]
    /\ buffer_deg = Zero
    /\ wind_polygon = NoPolygon
    /\ arc_coords = <<>>
    /\ poly_pc = "idle"
    /\ pipe_points = <<>>
    /\ wind_rows = <<>>
    /\ pipe_idx = 0
    /\ pipe_pc = "idle"
    /\ env_has_radii = <<>>
    /\ env_quadrants = 1
    /\ hulls = <<>>
    /\ env_result = NoEnvelopeResult
    /\ env_pc = "idle"

NextDuration == DurationFeatures \/ DurationReturnTimeline \/ DurationEdgeFallback
SpecDuration == InitDuration /\ [][NextDuration]_vars

\* calculate_lead_times entered with a track and an approach time, or
\* validate_lead_times entered with a dictionary of its own
InitLead ==
    /\ \/ /\ lead_track_df \in LeadTracks
          /\ nearest_approach_time \in ApproachChoices
          /\ lead_times = <<>>
          /\ lead_pc = "loop"
       \/ /\ lead_track_df = <<>>
          /\ nearest_approach_time = 0
          /\ lead_times \in [LeadKeys -> LeadValueChoices]
          /\ lead_pc = "validate"
    /\ lead_cat = 1
    /\ lead_valid = FALSE
    /\ storm_track = <<>>
    /\ track = <<>>
    /\ imputable_mask = <<>>
    /\ position = 0
    /\ last_known_ratio = One
    /\ impute_pc = "idle"
    /\ first_output = <<>>
    /\ impute_run = 1
    /\ has_radii = <<>>
    /\ segment_ids = <<>>
    /\ current_segment = 1
    /\ gap_counter = 0
    /\ in_gap = FALSE
    /\ segment_pc = "idle"
    /\ track_df = <<>>
    /\ interval_minutes = 15
    /\ track_sorted = <<>>
    /\ records = <<>>
    /\ idx = 0
    /\ interp_pc = "idle"
    /\ exposure_timeline = <<>>
    /\ dur_interval = 15
    /\ coverage = "none"
    /\ envelope = "none"
    /\ distance_to_edge = None
    /\ duration = EmptyDuration(<<>>, "timeline")
    /\ dur_pc = "idle"
    /\ center_wind = Zero
    /\ rmw_observed = NaN
    /\ rmw_at_approach = Zero
    /\ centroid_dist_nm = Zero
    /\ ray_exit_nm = None
    /\ edge_dist_nm = Zero
    /\ wind_radii = NoWindRadii
    /\ wind_result = NoWindResult
    /\ wind_pc = "idle"
    /\ poly_radii = [q \in Quads |-> NaN]
    /\ buffer_deg = Zero
    /\ wind_polygon = NoPolygon
    /\ arc_coords = <<>>
    /\ poly_pc = "idle"
    /\ pipe_points = <<>>
    /\ wind_rows = <<>>
    /\ pipe_idx = 0
    /\ pipe_pc = "idle"
    /\ env_has_radii = <<>>
    /\ env_quadrants = 1
    /\ hulls = <<>>
    /\ env_result = NoEnvelopeResult
    /\ env_pc = "idle"

NextLead == LeadCategory \/ LeadReturn \/ ValidateLeadTimes
SpecLead == InitLead /\ [][NextLead]_vars

\* calculate_max_wind_experienced entered
InitWind ==
    /\ center_wind \in CenterWindChoices
    /\ rmw_observed \in RmwChoices
    /\ centroid_dist_nm \in CentroidDistChoices
    /\ ray_exit_nm \in RayExitChoices
    /\ wind_radii \in WindRadiiChoices
    /\ rmw_at_approach = Zero
    /\ edge_dist_nm = Zero
    /\ wind_result = NoWindResult
    /\ wind_pc = "start"
    /\ storm_track = <<>>
    /\ track = <<>>
    /\ imputable_mask = <<>>
    /\ position = 0
    /\ last_known_ratio = One
    /\ impute_pc = "idle"
    /\ first_output = <<>>
    /\ impute_run = 1
    /\ has_radii = <<>>
    /\ segment_ids = <<>>
    /\ current_segment = 1
    /\ gap_counter = 0
    /\ in_gap = FALSE
    /\ segment_pc = "idle"
    /\ track_df = <<>>
    /\ interval_minutes = 15
    /\ track_sorted = <<>>
    /\ records = <<>>
    /\ idx = 0
    /\ interp_pc = "idle"
    /\ exposure_timeline = <<>>
    /\ dur_interval = 15
    /\ coverage = "none"
    /\ envelope = "none"
    /\ distance_to_edge = None
    /\ duration = EmptyDuration(<<>>, "timeline")
    /\ dur_pc = "idle"
    /\ lead_track_df = <<>>
    /\ nearest_approach_time = 0
    /\ lead_times = <<>>
    /\ lead_cat = 0
    /\ lead_valid = FALSE
    /\ lead_pc = "idle"
    /\ poly_radii = [q \in Quads |-> NaN]
    /\ buffer_deg = Zero
    /\ wind_polygon = NoPolygon
    /\ arc_coords = <<>>
    /\ poly_pc = "idle"
    /\ pipe_points = <<>>
    /\ wind_rows = <<>>
    /\ pipe_idx = 0
    /\ pipe_pc = "idle"
    /\ env_has_radii = <<>>
    /\ env_quadrants = 1
    /\ hulls = <<>>
    /\ env_result = NoEnvelopeResult
    /\ env_pc = "idle"

NextWind == WindApproach \/ WindRayError \/ WindResult
SpecWind == InitWind /\ [][NextWind]_vars

\* create_instantaneous_wind_polygon entered
InitPolygon ==
    /\ poly_radii \in [Quads -> PolyRadiusChoices]
    /\ buffer_deg \in BufferChoices
    /\ wind_polygon = NoPolygon
    /\ arc_coords = <<>>
    /\ poly_pc = "start"
    /\ storm_track = <<>>
    /\ track = <<>>
    /\ imputable_mask = <<>>
    /\ position = 0
    /\ last_known_ratio = One
    /\ impute_pc = "idle"
    /\ first_output = <<>>
    /\ impute_run = 1
    /\ has_radii = <<>>
    /\ segment_ids = <<>>
    /\ current_segment = 1
    /\ gap_counter = 0
    /\ in_gap = FALSE
    /\ segment_pc = "idle"
    /\ track_df = <<>>
    /\ interval_minutes = 15
    /\ track_sorted = <<>>
    /\ records = <<>>
    /\ idx = 0
    /\ interp_pc = "idle"
    /\ exposure_timeline = <<>>
    /\ dur_interval = 15
    /\ coverage = "none"
    /\ envelope = "none"
    /\ distance_to_edge = None
    /\ duration = EmptyDuration(<<>>, "timeline")
    /\ dur_pc = "idle"
    /\ lead_track_df = <<>>
    /\ nearest_approach_time = 0
    /\ lead_times = <<>>
    /\ lead_cat = 0
    /\ lead_valid = FALSE
    /\ lead_pc = "idle"
    /\ center_wind = Zero
    /\ rmw_observed = NaN
    /\ rmw_at_approach = Zero
    /\ centroid_dist_nm = Zero
    /\ ray_exit_nm = None
    /\ edge_dist_nm = Zero
    /\ wind_radii = NoWindRadii
    /\ wind_result = NoWindResult
    /\ wind_pc = "idle"
    /\ pipe_points = <<>>
    /\ wind_rows = <<>>
    /\ pipe_idx = 0
    /\ pipe_pc = "idle"
    /\ env_has_radii = <<>>
    /\ env_quadrants = 1
    /\ hulls = <<>>
    /\ env_result = NoEnvelopeResult
    /\ env_pc = "idle"

NextPolygon == PolygonNone \/ PolygonSparse \/ PolygonArcs
SpecPolygon == InitPolygon /\ [][NextPolygon]_vars

\* run_pipeline reaches its per-point loop
InitPipeline ==
    /\ pipe_points \in PointLists
    /\ wind_rows = <<>>
    /\ pipe_idx = 1
    /\ pipe_pc = "loop"
    /\ storm_track = <<>>
    /\ track = <<>>
    /\ imputable_mask = <<>>
    /\ position = 0
    /\ last_known_ratio = One
    /\ impute_pc = "idle"
    /\ first_output = <<>>
    /\ impute_run = 1
    /\ has_radii = <<>>
    /\ segment_ids = <<>>
    /\ current_segment = 1
    /\ gap_counter = 0
    /\ in_gap = FALSE
    /\ segment_pc = "idle"
    /\ track_df = <<>>
    /\ interval_minutes = 15
    /\ track_sorted = <<>>
    /\ records = <<>>
    /\ idx = 0
    /\ interp_pc = "idle"
    /\ exposure_timeline = <<>>
    /\ dur_interval = 15
    /\ coverage = "none"
    /\ envelope = "none"
    /\ distance_to_edge = None
    /\ duration = EmptyDuration(<<>>, "timeline")
    /\ dur_pc = "idle"
    /\ lead_track_df = <<>>
    /\ nearest_approach_time = 0
    /\ lead_times = <<>>
    /\ lead_cat = 0
    /\ lead_valid = FALSE
    /\ lead_pc = "idle"
    /\ center_wind = Zero
    /\ rmw_observed = NaN
    /\ rmw_at_approach = Zero
    /\ centroid_dist_nm = Zero
    /\ ray_exit_nm = None
    /\ edge_dist_nm = Zero
    /\ wind_radii = NoWindRadii
    /\ wind_result = NoWindResult
    /\ wind_pc = "idle"
    /\ poly_radii = [q \in Quads |-> NaN]
    /\ buffer_deg = Zero
    /\ wind_polygon = NoPolygon
    /\ arc_coords = <<>>
    /\ poly_pc = "idle"
    /\ env_has_radii = <<>>
    /\ env_quadrants = 1
    /\ hulls = <<>>
    /\ env_result = NoEnvelopeResult
    /\ env_pc = "idle"

NextPipeline ==
    \/ PipelineCall
    \/ WindApproach
    \/ WindRayError
    \/ WindResult
    \/ PipelineRecord
    \/ PipelineSentinel
    \/ PipelineDone

SpecPipeline == InitPipeline /\ [][NextPipeline]_vars

\* create_storm_envelope entered
InitEnvelope ==
    /\ env_has_radii \in EnvelopeSeries
    /\ env_quadrants \in {1, 4}
    /\ hulls = <<>>
    /\ env_result = NoEnvelopeResult
    /\ env_pc = "start"
    /\ storm_track = <<>>
    /\ track = <<>>
    /\ imputable_mask = <<>>
    /\ position = 0
    /\ last_known_ratio = One
    /\ impute_pc = "idle"
    /\ first_output = <<>>
    /\ impute_run = 1
    /\ has_radii = <<>>
    /\ segment_ids = <<>>
    /\ current_segment = 1
    /\ gap_counter = 0
    /\ in_gap = FALSE
    /\ segment_pc = "idle"
    /\ track_df = <<>>
    /\ interval_minutes = 15
    /\ track_sorted = <<>>
    /\ records = <<>>
    /\ idx = 0
    /\ interp_pc = "idle"
    /\ exposure_timeline = <<>>
    /\ dur_interval = 15
    /\ coverage = "none"
    /\ envelope = "none"
    /\ distance_to_edge = None
    /\ duration = EmptyDuration(<<>>, "timeline")
    /\ dur_pc = "idle"
    /\ lead_track_df = <<>>
    /\ nearest_approach_time = 0
    /\ lead_times = <<>>
    /\ lead_cat = 0
    /\ lead_valid = FALSE
    /\ lead_pc = "idle"
    /\ center_wind = Zero
    /\ rmw_observed = NaN
    /\ rmw_at_approach = Zero
    /\ centroid_dist_nm = Zero
    /\ ray_exit_nm = None
    /\ edge_dist_nm = Zero
    /\ wind_radii = NoWindRadii
    /\ wind_result = NoWindResult
    /\ wind_pc = "idle"
    /\ poly_radii = [q \in Quads |-> NaN]
    /\ buffer_deg = Zero
    /\ wind_polygon = NoPolygon
    /\ arc_coords = <<>>
    /\ poly_pc = "idle"
    /\ pipe_points = <<>>
    /\ wind_rows = <<>>
    /\ pipe_idx = 0
    /\ pipe_pc = "idle"

NextEnvelope ==
    \/ EnvelopeKeyError
    \/ EnvelopePrepare
    \/ ScanStep
    \/ ScanDone
    \/ EnvelopeHull
    \/ EnvelopeReturn
    \/ EnvelopeLineError

SpecEnvelope == InitEnvelope /\ [][NextEnvelope]_vars

---------------------------------------------------------------------------
(* Claims                                                                  *)

\* C1: the imputer never regresses observed data: the raw columns of the
\* working table equal the caller's raw columns at every step, every
\* quadrant whose raw radius is present keeps effective radius = raw radius
\* with was_imputed false, and the caller's table is never written.
C1_ObservedKept ==
    /\ Len(track) = Len(storm_track)
    /\ \A i \in 1..Len(track) :
          /\ track[i].base = storm_track[i]
          /\ \A q \in Quads :
                notna(track[i].base[q]) =>
                    /\ track[i].imputed[q] = track[i].base[q]
                    /\ track[i].was_imputed[q] = FALSE

C1_NeverRegressesObserved ==
    [](impute_pc # "idle" => C1_ObservedKept) /\ [][storm_track' = storm_track]_vars

\* C1 witness: a finished run in which a row mixes observed and imputed quadrants.
C1_Witness ==
    /\ impute_pc = "done"
    /\ \E i \in 1..Len(track) :
          /\ track[i].any_imputed
          /\ \E q \in Quads : notna(track[i].base[q])
          /\ \E q \in Quads : track[i].was_imputed[q]

\* C10: the segment id appended at step j is the previous id (1 before the
\* first step) plus one exactly when has_radii[j] is true and at least the
\* 5 steps immediately before j are all false; otherwise it is unchanged.
LongGapBefore(j) ==
    /\ j > GapThreshold
    /\ \A k \in (j - GapThreshold)..(j - 1) : ~ has_radii[k]

C10_SegmenterRule ==
    segment_pc # "idle" =>
        \A j \in 1..Len(segment_ids) :
            LET before == IF j = 1 THEN 1 ELSE segment_ids[j - 1]
            IN  segment_ids[j] =
                    IF has_radii[j] /\ LongGapBefore(j) THEN before + 1 ELSE before

\* C10 witness: a finished scan that opened a second segment after a long gap
\* and also crossed a short gap without opening one.
C10_Witness ==
    /\ segment_pc = "done"
    /\ \E j \in 1..Len(segment_ids) : j > 1 /\ segment_ids[j] = segment_ids[j - 1] + 1
    /\ \E j \in 2..Len(segment_ids) :
          has_radii[j] /\ ~ has_radii[j - 1] /\ segment_ids[j] = segment_ids[j - 1]


\* ---- C2 ----
\* C2: every result of calculate_duration_features and of
\* calculate_duration_for_tract has 0 <= duration_in_envelope_hours <=
\* exposure_window_hours, whatever the timeline and the provenance tag.
C2_DurationWithinWindow ==
    dur_pc \in {"features", "done"} =>
        /\ RatLe(Zero, duration.duration_in_envelope_hours)
        /\ RatLe(duration.duration_in_envelope_hours, duration.exposure_window_hours)

\* ---- C3 ----
C3_InsideIndices == {k \in 1..Len(exposure_timeline) : exposure_timeline[k].is_inside}
C3_FirstInside == CHOOSE k \in C3_InsideIndices : \A j \in C3_InsideIndices : k <= j
C3_LastInside  == CHOOSE k \in C3_InsideIndices : \A j \in C3_InsideIndices : k >= j
C3_EvenlySpaced ==
    \A k \in 1..(Len(exposure_timeline) - 1) :
        exposure_timeline[k + 1].date - exposure_timeline[k].date = dur_interval

C4_TimeAscending ==
    \A i \in 1..(Len(track_df) - 1) : track_df[i].date < track_df[i + 1].date

\* C4: for every time-ascending track with at least 2 observations, the first
\* row of the output of interpolate_track_temporal is the first observation
\* and the last row is the last observation.
C4_EndpointsPreserved ==
    (interp_pc = "done" /\ Len(track_df) >= 2 /\ C4_TimeAscending) =>
        /\ records # <<>>
        /\ records[1] = track_df[1]
        /\ records[Len(records)] = track_df[Len(track_df)]

\* ---- C5 ----
C5_ExactMultiples ==
    /\ Len(track_sorted) >= 2
    /\ \A i \in 1..(Len(track_sorted) - 1) :
          /\ track_sorted[i].date < track_sorted[i + 1].date
          /\ (track_sorted[i + 1].date - track_sorted[i].date) % interval_minutes = 0

RECURSIVE C5_GapSum(_)
C5_GapSum(i) ==
    IF i >= Len(track_sorted) THEN 0
    ELSE (track_sorted[i + 1].date - track_sorted[i].date) \div interval_minutes
            + C5_GapSum(i + 1)

C5_RowCount == 1 + C5_GapSum(1)

\* The row expected at position k: on the k-th interval boundary, interpolated
\* between the observations that bracket that boundary.
C5_ExpectedRow(k) ==
    LET date == track_sorted[1].date + (k - 1) * interval_minutes
    IN  IF k = 1 THEN track_sorted[1]
        ELSE IF k = C5_RowCount THEN track_sorted[Len(track_sorted)]
        ELSE LET i == CHOOSE j \in 1..(Len(track_sorted) - 1) :
                          track_sorted[j].date < date /\ date <= track_sorted[j + 1].date
                 a == track_sorted[i]
                 b == track_sorted[i + 1]
             IN  [date |-> date,
                  lat  |-> IF isna(a.lat) \/ isna(b.lat) THEN NaN
                           ELSE RatAdd(a.lat,
                                       RatMul(Rat(date - a.date, b.date - a.date),
                                              RatSub(b.lat, a.lat)))]

\* C5: when every gap between consecutive observations is an exact multiple
\* of the interval, interpolate_track_temporal returns 1 + sum(gap / interval)
\* rows, one on every interval boundary from the first to the last
\* observation, each column being the linear interpolation by time fraction
\* of the two bracketing observations (missing when either is missing).
C5_RowsOnEveryBoundary ==
    (interp_pc = "done" /\ C5_ExactMultiples) =>
        /\ Len(records) = C5_RowCount
        /\ \A k \in 1..C5_RowCount : records[k] = C5_ExpectedRow(k)

\* Two fixes 6 hours apart at 15-minute steps give 25 rows.
C5_Witness ==
    /\ interp_pc = "done"
    /\ track_df = BasicTrack
    /\ interval_minutes = 15
    /\ C5_ExactMultiples
    /\ Len(records) = 25
    /\ records[13] = [date |-> 180, lat |-> Rat(51, 2)]


\* ---- C6 ----
C6_Hits(threshold_kt) ==
    {k \in 1..Len(lead_track_df) :
        /\ lead_track_df[k].max_wind # NaN
        /\ lead_track_df[k].max_wind.n >= threshold_kt * lead_track_df[k].max_wind.d}

C6_IdaLeadTimes ==
    [lead_time_cat1_hours |-> Int2Rat(42), lead_time_cat2_hours |-> Int2Rat(30),
     lead_time_cat3_hours |-> Int2Rat(18), lead_time_cat4_hours |-> Int2Rat(6),
     lead_time_cat5_hours |-> None]

C6_Thresholds == <<64, 83, 96, 113, 137>>
C6_Keys == <<"lead_time_cat1_hours", "lead_time_cat2_hours", "lead_time_cat3_hours",
             "lead_time_cat4_hours", "lead_time_cat5_hours">>

\* C6: calculate_lead_times returns, for each threshold 64/83/96/113/137 kt,
\* null exactly when no observation has max_wind >= the threshold, and
\* otherwise (approach time - earliest such timestamp) in hours, positive
\* when the threshold was reached before the approach and negative when
\* after; the Ida-like track gives 42, 30, 18, 6 and null.
C6_LeadTimes ==
    lead_pc = "returned" =>
        /\ DOMAIN lead_times = {C6_Keys[c] : c \in 1..5}
        /\ \A c \in 1..5 :
              LET hits == C6_Hits(C6_Thresholds[c])
                  lt   == lead_times[C6_Keys[c]]
              IN  /\ (lt = None) <=> (hits = {})
                  /\ hits # {} =>
                        \E k \in hits :
                           /\ \A j \in hits : lead_track_df[k].date <= lead_track_df[j].date
                           /\ RatMul(lt, Int2Rat(60)) =
                                  Int2Rat(nearest_approach_time - lead_track_df[k].date)
                           /\ RatLt(Zero, lt) <=>
                                  (lead_track_df[k].date < nearest_approach_time)
                           /\ RatLt(lt, Zero) <=>
                                  (lead_track_df[k].date > nearest_approach_time)
        /\ (lead_track_df = IdaTrack /\ nearest_approach_time = 3240) =>
              lead_times = C6_IdaLeadTimes

\* The Ida-like track has been processed.
C6_Witness ==
    /\ lead_pc = "returned"
    /\ lead_track_df = IdaTrack
    /\ nearest_approach_time = 3240
    /\ lead_times["lead_time_cat1_hours"] = Int2Rat(42)
    /\ lead_times["lead_time_cat5_hours"] = None

\* A wind exactly on a threshold, reached after the approach: a negative lead time.
C6_WitnessBoundary ==
    /\ lead_pc = "returned"
    /\ Len(lead_track_df) = 2
    /\ lead_track_df[1] = [date |-> 750, max_wind |-> Int2Rat(64)]
    /\ lead_track_df[2] = [date |-> 0, max_wind |-> Int2Rat(63)]
    /\ nearest_approach_time = 360
    /\ lead_times["lead_time_cat1_hours"] = Rat(-13, 2)
    /\ lead_times["lead_time_cat2_hours"] = None

\* ---- C7 ----
C7_Value(c) == lead_times[C6_Keys[c]]

\* (a) once a category is null, every higher category is null
C7_NullsFormSuffix ==
    \A i, j \in 1..5 : (i < j /\ C7_Value(i) = None) => C7_Value(j) = None

\* (b) no lead time exceeds that of the next lower non-null category by more than 6 hours
C7_NoIncreaseOverSix ==
    \A i, j \in 1..5 :
        (/\ i < j
         /\ C7_Value(i) # None
         /\ C7_Value(j) # None
         /\ \A k \in (i + 1)..(j - 1) : C7_Value(k) = None)
        => RatLe(RatSub(C7_Value(j), C7_Value(i)), Int2Rat(6))

\* C7: validate_lead_times returns true if and only if (a) the nulls form a
\* suffix of the five categories and (b) no lead time exceeds the next lower
\* non-null one by more than 6 hours, exactly 6 being accepted; and it leaves
\* the lead times as they were.
C7_ValidateLeadTimes ==
    /\ [](lead_pc = "validated" =>
             (lead_valid <=> (C7_NullsFormSuffix /\ C7_NoIncreaseOverSix)))
    /\ [][(lead_pc \in {"returned", "validate"}) => (lead_times' = lead_times)]_vars

\* An increase of exactly 6 hours from cat1 to cat2 was accepted.
C7_Witness ==
    /\ lead_pc = "validated"
    /\ lead_valid
    /\ C7_Value(1) = Zero
    /\ C7_Value(2) = Int2Rat(6)
    /\ C7_Value(3) = None

\* An increase of 7 hours was rejected.
C7_WitnessRejected ==
    /\ lead_pc = "validated"
    /\ ~ lead_valid
    /\ C7_NullsFormSuffix
    /\ C7_Value(1) = Zero
    /\ C7_Value(2) = Int2Rat(7)

\* ---- C8 ----
C8_DecayTags == {"rmw_decay_to_64kt", "rmw_decay_to_50kt", "rmw_decay_to_34kt",
                 "rmw_decay_to_envelope"}

C8_Plateau ==
    /\ wind_result.max_wind_experienced_kt = wind_result.center_wind_at_approach_kt
    /\ wind_result.inside_eyewall
    /\ wind_result.wind_source = "rmw_plateau"

C8_Decay ==
    /\ ~ wind_result.inside_eyewall
    /\ wind_result.wind_source \in C8_DecayTags

\* C8 as stated: a distance <= the RMW used gives the plateau (wind = center
\* wind, inside_eyewall, 'rmw_plateau'); a distance > RMW gives inside_eyewall
\* false and a decay tag.
C8_PlateauBoundary ==
    wind_pc = "done" =>
        /\ RatLe(centroid_dist_nm, wind_result.radius_max_wind_at_approach_nm) => C8_Plateau
        /\ RatLt(wind_result.radius_max_wind_at_approach_nm, centroid_dist_nm) => C8_Decay

\* The distance exceeds the RMW by no more than a millionth of the distance.
C8_WithinTolerance ==
    LET excess == RatSub(centroid_dist_nm, wind_result.radius_max_wind_at_approach_nm)
    IN  /\ RatLt(excess, One)
        /\ RatLe(RatMul(excess, Int2Rat(1000000)), centroid_dist_nm)

\* C8 amended: a distance <= RMW, or above it by at most a relative 1e-6,
\* gives the plateau; a distance beyond that tolerance gives inside_eyewall
\* false and a decay tag.
C8_PlateauWithinTolerance ==
    wind_pc = "done" =>
        IF \/ RatLe(centroid_dist_nm, wind_result.radius_max_wind_at_approach_nm)
           \/ C8_WithinTolerance
        THEN C8_Plateau
        ELSE C8_Decay

\* A point 20.00001 nm from the track with an RMW of 20 nm is on the plateau.
C8_Witness ==
    /\ wind_pc = "done"
    /\ wind_result.radius_max_wind_at_approach_nm = Int2Rat(20)
    /\ centroid_dist_nm = Rat(2000001, 100000)
    /\ C8_Plateau

\* ---- C9 ----
C9_Target ==
    CASE wind_result.wind_source = "rmw_decay_to_64kt" -> Int2Rat(64)
      [] wind_result.wind_source = "rmw_decay_to_50kt" -> Int2Rat(50)
      [] wind_result.wind_source = "rmw_decay_to_34kt" -> Int2Rat(34)
      [] OTHER -> Int2Rat(64)

\* C9: every result has max_wind_experienced_kt <= center_wind_at_approach_kt,
\* in a decay branch it is not below the branch's target (64, 50, 34 kt, and
\* 64 kt in the envelope-only branch), and the decay fraction is in [0, 1].
C9_DecayBounds ==
    wind_pc = "done" =>
        /\ RatLe(wind_result.max_wind_experienced_kt, wind_result.center_wind_at_approach_kt)
        /\ wind_result.wind_source \in C8_DecayTags =>
              RatLe(C9_Target, wind_result.max_wind_experienced_kt)
        /\ wind_result.decay_fraction # None =>
              /\ RatLe(Zero, wind_result.decay_fraction)
              /\ RatLe(wind_result.decay_fraction, One)


\* ---- C11 ----
\* C11: after the segmentation scan every track index has exactly one
\* segment id, the first id is 1, ids are non-decreasing and consecutive ids
\* differ by at most 1, so each segment is one contiguous run of indices and
\* the segments cover the track without overlap.
C11_SegmentsPartition ==
    segment_pc = "done" =>
        /\ DOMAIN segment_ids = DOMAIN has_radii
        /\ Len(segment_ids) >= 1 => segment_ids[1] = 1
        /\ \A i \in 1..(Len(segment_ids) - 1) :
              /\ segment_ids[i] <= segment_ids[i + 1]
              /\ segment_ids[i + 1] <= segment_ids[i] + 1
        /\ \A i, k \in 1..Len(segment_ids) :
              (i < k /\ segment_ids[i] = segment_ids[k]) =>
                  \A j \in i..k : segment_ids[j] = segment_ids[i]
        /\ Len(segment_ids) >= 1 =>
              \A g \in 1..segment_ids[Len(segment_ids)] :
                  \E i \in 1..Len(segment_ids) : segment_ids[i] = g

\* Two long gaps: the track falls into three segments.
C11_Witness ==
    /\ segment_pc = "done"
    /\ Len(segment_ids) = 12
    /\ segment_ids[1] = 1
    /\ segment_ids[6] = 2
    /\ segment_ids[12] = 3


\* ---- C12 ----
\* The step has no observed radius and neither has any step before it.
C12_NoUsableRatio(pos) ==
    \A j \in 1..pos : defined_count_of(storm_track[j]) = 0

\* C12: a step with zero quadrants defined that is the first step of the
\* track, or is preceded only by steps without observed radii, is left
\* un-imputed (the four effective radii stay missing, was_imputed and
\* any_imputed stay false) and create_instantaneous_wind_polygon built from
\* its radii returns null.
C12_MissingRadiiFallback ==
    impute_pc = "done" =>
        \A pos \in 1..Len(track) :
            C12_NoUsableRatio(pos) =>
                /\ \A q \in Quads : isna(track[pos].imputed[q])
                /\ \A q \in Quads : ~ track[pos].was_imputed[q]
                /\ ~ track[pos].any_imputed
                /\ create_instantaneous_wind_polygon(track[pos].imputed, Rat(1, 50)).kind
                       = "null"

\* Two steps without radii, then an observed step.
C12_Witness ==
    /\ impute_pc = "done"
    /\ Len(track) = 3
    /\ C12_NoUsableRatio(2)
    /\ defined_count_of(storm_track[3]) = 4
    /\ \A q \in Quads : isna(track[2].imputed[q])

\* ---- C14 ----
C14_ValidCount ==
    Cardinality({q \in Quads : poly_radii[q] \notin {NaN, None} /\ poly_radii[q].n > 0})

\* C14: create_instantaneous_wind_polygon returns null for zero valid
\* quadrants, a non-null and non-empty buffered point for one and buffered
\* line for two, whether buffer_deg is 0.02 or 0.0, and an arc-sampled
\* polygon for three or four.
C14_PolygonDispatch ==
    poly_pc = "done" =>
        /\ C14_ValidCount = 0 => wind_polygon.kind = "null"
        /\ C14_ValidCount = 1 =>
              wind_polygon.kind = "buffered_point" /\ ~ wind_polygon.is_empty
        /\ C14_ValidCount = 2 =>
              wind_polygon.kind = "buffered_line" /\ ~ wind_polygon.is_empty
        /\ C14_ValidCount >= 3 =>
              wind_polygon.kind = "arc_polygon" /\ ~ wind_polygon.is_empty

\* C13: running the imputer on its own output changes nothing: the second
\* call returns a table equal to the first call's in every column (raw and
\* effective radii, was-imputed flags, stored ratio, any-imputed flag).
C13_Idempotent ==
    (impute_pc = "done" /\ impute_run = 2) => track = first_output

C13_Witness ==
    /\ impute_pc = "done"
    /\ impute_run = 2
    /\ Len(track) = 3
    /\ track[2].any_imputed
    /\ track[3].any_imputed
    /\ \E q \in Quads : track[3].was_imputed[q] /\ track[3].imputed[q] # track[2].imputed[q]

\* The containment check of the confirming polygon succeeds: the coverage
\* union when one is given, the envelope only when no coverage is given.
C15_Confirmed ==
    \/ coverage = "inside"
    \/ coverage = "none" /\ envelope = "inside"

C15_TimelineZero ==
    calculate_duration_features(exposure_timeline, dur_interval)
        .duration_in_envelope_hours = Zero

\* C15: the edge-interpolation fallback is applied only when the timeline
\* duration is exactly zero and the containment check confirms the point;
\* in every other case the timeline result is returned unchanged with
\* duration_source "timeline".  The source is one of "timeline",
\* "edge_interpolation", "edge_interpolation_failed", and the failed result
\* (zero duration, null entry and exit times) is returned exactly when the
\* fallback is applied and no interpolated step has all four radii valid.
C15_FallbackGating ==
    dur_pc = "done" =>
        /\ duration.duration_source \in
               {"timeline", "edge_interpolation", "edge_interpolation_failed"}
        /\ duration.duration_source # "timeline" =>
               (C15_TimelineZero /\ C15_Confirmed)
        /\ ~ (C15_TimelineZero /\ C15_Confirmed) =>
               duration = calculate_duration_features(exposure_timeline, dur_interval)
        /\ duration.duration_source = "timeline" =>
               duration = calculate_duration_features(exposure_timeline, dur_interval)
        /\ duration.duration_source = "edge_interpolation_failed" <=>
               (/\ C15_TimelineZero
                /\ C15_Confirmed
                /\ \A k \in 1..Len(exposure_timeline) : ~ exposure_timeline[k].complete)
        /\ duration.duration_source = "edge_interpolation_failed" =>
               /\ duration.duration_in_envelope_hours = Zero
               /\ duration.first_entry_time = None
               /\ duration.last_exit_time = None

\* The fallback fails: confirmed by the envelope, no complete step.
C15_Witness ==
    /\ dur_pc = "done"
    /\ duration.duration_source = "edge_interpolation_failed"
    /\ coverage = "none"
    /\ envelope = "inside"
    /\ Len(exposure_timeline) >= 2

\* The fallback succeeds.
C15_WitnessApplied ==
    /\ dur_pc = "done"
    /\ duration.duration_source = "edge_interpolation"
    /\ coverage = "inside"

\* Zero timeline duration, coverage given but not containing the point,
\* envelope containing it: the timeline result is returned.
C15_WitnessNotConfirmed ==
    /\ dur_pc = "done"
    /\ C15_TimelineZero
    /\ coverage = "outside"
    /\ envelope = "inside"
    /\ duration.duration_source = "timeline"

\* The ray from the nearest track position through the point exists (the
\* point is not on the track position) and misses the envelope boundary.
C17_RayMisses(pt) == pt.centroid_dist_nm # Zero /\ pt.ray_exit_nm = None

\* What calculate_max_wind_experienced returns for the point on its own.
C17_Alone(pt) ==
    max_wind_record(pt.center_wind,
                    RatMax(interpolate_radius_max_wind_at_point(pt.rmw_observed,
                                                                pt.center_wind), Zero),
                    pt.centroid_dist_nm,
                    calculate_ray_envelope_intersection(pt.centroid_dist_nm,
                                                        pt.ray_exit_nm),
                    pt.wind_radii)

\* C17: an evaluation failure is a distinguishable result, never a zero
\* wind.  calculate_max_wind_experienced raises whenever the ray from the
\* nearest track position through the point misses the envelope boundary;
\* run_pipeline then records a sentinel row for the point (NaN winds,
\* wind_source "error") and goes on: every point gets its row, and the row
\* of a point whose ray hits is what the point yields on its own, whatever
\* happened to the points before it.
C17_FailureIsDistinguishable ==
    /\ (pipe_pc = "call" /\ wind_pc = "error") => C17_RayMisses(pipe_points[pipe_idx])
    /\ (pipe_pc = "call" /\ wind_pc \in {"approach", "done"}) =>
           ~ C17_RayMisses(pipe_points[pipe_idx])
    /\ Len(wind_rows) <= Len(pipe_points)
    /\ pipe_pc = "done" => Len(wind_rows) = Len(pipe_points)
    /\ \A i \in 1..Len(wind_rows) :
          IF C17_RayMisses(pipe_points[i])
          THEN /\ wind_rows[i].wind_source = "error"
               /\ isna(wind_rows[i].max_wind_experienced_kt)
               /\ isna(wind_rows[i].center_wind_at_approach_kt)
               /\ wind_rows[i].max_wind_experienced_kt # Zero
          ELSE /\ wind_rows[i].wind_source # "error"
               /\ wind_rows[i] = C17_Alone(pipe_points[i])

\* The first point fails, the second is evaluated as if alone.
C17_Witness ==
    /\ pipe_pc = "done"
    /\ Len(pipe_points) = 2
    /\ C17_RayMisses(pipe_points[1])
    /\ ~ C17_RayMisses(pipe_points[2])
    /\ wind_rows[1].wind_source = "error"
    /\ wind_rows[2].wind_source = "rmw_decay_to_64kt"
    /\ wind_rows[2].max_wind_experienced_kt # Zero

C16_Segments == {segment_ids[i] : i \in 1..Len(segment_ids)}

C16_Collected(seg) == collected_points(segment_ids, has_radii, env_quadrants, seg)

\* No segment of the track yields three collected points.
C16_NoSegmentYieldsThree == \A seg \in C16_Segments : C16_Collected(seg) < 3

C16_HullPerSegment ==
    \A seg \in 1..Len(hulls) :
        /\ C16_Collected(seg) < 3 => hulls[seg].method = "none"
        /\ C16_Collected(seg) = 3 => hulls[seg].method = "convex_hull"
        /\ C16_Collected(seg) >= 4 => hulls[seg].method = "alpha_shape"

\* C16: create_storm_envelope returns a null envelope with an empty centre
\* line and an empty hull-point list, and does not raise, when no segment
\* yields at least 3 collected points; a segment with fewer than 3 points
\* contributes no hull, one with exactly 3 the convex hull, one with 4 or
\* more the alpha shape.
C16_NullEnvelope ==
    /\ env_pc = "raised" => ~ C16_NoSegmentYieldsThree
    /\ (env_pc = "returned" /\ C16_NoSegmentYieldsThree) => env_result = NullEnvelope
    /\ C16_HullPerSegment

\* The same, for a track with at least one step.
C16_NullEnvelopeNonEmptyTrack == env_has_radii # <<>> => C16_NullEnvelope

\* Two steps without radii: one segment of two points, null result.
C16_WitnessNull ==
    /\ env_pc = "returned"
    /\ Len(has_radii) = 2
    /\ C16_NoSegmentYieldsThree
    /\ env_result = NullEnvelope

\* Three steps without radii: the convex hull of the three track points.
C16_WitnessConvexHull ==
    /\ env_pc = "returned"
    /\ Len(hulls) = 1
    /\ hulls[1].n_points = 3
    /\ hulls[1].method = "convex_hull"
    /\ env_result.envelope = "geometry"

\* A leading gap without radii and a second segment with radii.
C16_WitnessAlpha ==
    /\ env_pc = "returned"
    /\ Len(hulls) = 2
    /\ hulls[1].n_points = 5
    /\ hulls[2].n_points >= 31
    /\ hulls[2].method = "alpha_shape"

C18_SortedAscending(t) == \A i \in 1..(Len(t) - 1) : t[i].date <= t[i + 1].date

\* C18: interpolate_track_temporal fails when the input track is not sorted
\* in ascending timestamp order: it returns a table only for a sorted track.
C18_FailsOnUnsorted == interp_pc = "done" => C18_SortedAscending(track_df)

\* The one-row track fails (IndexError at line 68).
C19_OneRowFails == Len(track_df) = 1 => interp_pc # "done"

\* C19: given a track with fewer than 2 observations (0 rows or 1 row),
\* interpolate_track_temporal reports a failure instead of returning a table.
C19_FailsOnShortTrack == interp_pc = "done" => Len(track_df) >= 2

\* current/previous for the quadrants of qs that lie in the set keep
RECURSIVE C21_Ratios(_, _, _, _)
C21_Ratios(qs, keep, cur, prev) ==
    IF qs = <<>> THEN <<>>
    ELSE (IF Head(qs) \in keep THEN <<RatDiv(cur[Head(qs)], prev[Head(qs)])>> ELSE <<>>)
         \o C21_Ratios(Tail(qs), keep, cur, prev)

\* previous x ratio, clamped to 0 when the product is <= 0
C21_Clamped(prev_val, ratio) ==
    IF RatLe(RatMul(prev_val, ratio), Zero) THEN Zero ELSE RatMul(prev_val, ratio)

\* The quadrants observed at step i and at step i-1.
C21_ObservedAtBoth(i) ==
    {q \in Quads : defined(track[i].base[q]) /\ defined(track[i - 1].base[q])}

\* The quadrants observed at step i whose effective radius at step i-1,
\* observed or imputed, is present and positive.
C21_ObservedWithPrevious(i) ==
    {q \in Quads : defined(track[i].base[q]) /\ defined(track[i - 1].imputed[q])}

\* The quadrants of step i the imputation is about: raw radius missing,
\* previous effective radius present.
C21_ToFill(i) ==
    {q \in Quads : ~ defined(track[i].base[q]) /\ notna(track[i - 1].imputed[q])}

\* C21 as stated: at an imputable step i > 0, each quadrant whose raw radius
\* is missing gets (effective radius at step i-1) x ratio, clamped to 0,
\* where ratio is the mean of current/previous over exactly the quadrants
\* observed at both step i and step i-1.
C21_ImputedValueObservedAtBoth ==
    impute_pc = "done" =>
        \A i \in 2..Len(track) :
            (imputable_mask[i] /\ C21_ObservedAtBoth(i) # {}) =>
                \A q \in C21_ToFill(i) :
                    track[i].imputed[q] =
                        C21_Clamped(track[i - 1].imputed[q],
                                    Mean(C21_Ratios(quadrants, C21_ObservedAtBoth(i),
                                                    track[i].base, track[i - 1].base)))

\* C21, amended: the ratio is the mean of current / previous effective
\* radius over the quadrants observed at step i whose effective radius at
\* step i-1 (observed or imputed) is present and positive.
C21_ImputedValue ==
    impute_pc = "done" =>
        \A i \in 2..Len(track) :
            (imputable_mask[i] /\ C21_ObservedWithPrevious(i) # {}) =>
                \A q \in C21_ToFill(i) :
                    /\ track[i].was_imputed[q]
                    /\ track[i].imputed[q] =
                        C21_Clamped(track[i - 1].imputed[q],
                                    Mean(C21_Ratios(quadrants, C21_ObservedWithPrevious(i),
                                                    track[i].base, track[i - 1].imputed)))

\* Step 3 observes a quadrant that step 2 had imputed, and fills another.
C21_Witness ==
    /\ impute_pc = "done"
    /\ Len(track) = 3
    /\ imputable_mask[3]
    /\ C21_ObservedWithPrevious(3) # C21_ObservedAtBoth(3)
    /\ C21_ObservedAtBoth(3) # {}
    /\ \E q \in C21_ToFill(3) : track[3].was_imputed[q] /\ RatLt(Zero, track[3].imputed[q])

\* Overlap data with the previous step exists at step i.
C22_HasOverlap(i) == i > 1 /\ C21_ObservedWithPrevious(i) # {}

\* The ratio computed at a step with overlap data (never negative).
C22_ComputedAt(i) ==
    RatMax(Mean(C21_Ratios(quadrants, C21_ObservedWithPrevious(i),
                           track[i].base, track[i - 1].imputed)), Zero)

\* The ratio computed at step i, else the most recently computed ratio of
\* an earlier step, else the seed 1.0.
RECURSIVE C22_Carried(_)
C22_Carried(i) ==
    IF i = 0 THEN One
    ELSE IF C22_HasOverlap(i) THEN C22_ComputedAt(i)
    ELSE C22_Carried(i - 1)

\* C22: the ratio recorded for a step is the ratio computed at that step
\* when overlap data with the previous step exists, otherwise the most
\* recently computed ratio of any earlier step, otherwise the seed 1.0; it
\* is defined and >= 0 at every step.
C22_RatioCarriedForward ==
    /\ impute_pc = "done" =>
          \A i \in 1..Len(track) :
             /\ track[i].ratio = C22_Carried(i)
             /\ notna(track[i].ratio)
             /\ RatLe(Zero, track[i].ratio)
    /\ impute_pc = "loop" =>
          \A i \in 1..Len(track) : i < position => track[i].ratio = C22_Carried(i)

\* Step 2 computes a ratio other than 1, step 3 has no overlap and carries it.
C22_Witness ==
    /\ impute_pc = "done"
    /\ Len(track) = 3
    /\ C22_HasOverlap(2)
    /\ ~ C22_HasOverlap(3)
    /\ track[2].ratio # One
    /\ track[3].ratio = track[2].ratio

\* The full duration of the complete-data span, in hours.
C23_FullDuration ==
    Rat((last_complete_idx(exposure_timeline) - first_complete_idx(exposure_timeline))
            * dur_interval, 60)

\* The distance the estimate is computed from (0.0 when it cannot be measured).
C23_Distance == IF distance_to_edge = None THEN Zero ELSE distance_to_edge

C23_Estimate(d) ==
    IF RatLe(Rat(1, 5), d) THEN C23_FullDuration
    ELSE RatMul(C23_FullDuration, RatDiv(d, Rat(1, 5)))

\* C23: when the distance to the confirming polygon's boundary is >= 0.2
\* degree the estimated duration is the full duration of the complete-data
\* span, below that it is the full duration scaled by distance / 0.2; the
\* estimate never decreases as the distance grows.
C23_EdgeEstimate ==
    (dur_pc = "done" /\ duration.duration_source = "edge_interpolation") =>
        /\ duration.duration_in_envelope_hours = C23_Estimate(C23_Distance)
        /\ \A d1, d2 \in DistanceChoices \ {None} :
              RatLe(d1, d2) =>
                  RatLe(interpolate_duration_near_edge(exposure_timeline, dur_interval, d1)
                            .duration_in_envelope_hours,
                        interpolate_duration_near_edge(exposure_timeline, dur_interval, d2)
                            .duration_in_envelope_hours)

\* Below the buffer the estimate is the full duration scaled by distance / 0.2.
C23_ScaledBelowBuffer ==
    (/\ dur_pc = "done"
     /\ duration.duration_source = "edge_interpolation"
     /\ RatLt(C23_Distance, Rat(1, 5))) =>
        duration.duration_in_envelope_hours = C23_Estimate(C23_Distance)

\* The steps from the reported entry to the reported exit.
C24_ReportedSpan ==
    {k \in 1..Len(exposure_timeline) :
        /\ RatLe(duration.first_entry_time, Int2Rat(exposure_timeline[k].date))
        /\ RatLe(Int2Rat(exposure_timeline[k].date), duration.last_exit_time)}

\* C24: the edge-interpolation fallback bases its maximum duration and its
\* entry and exit times on a run of consecutive steps that all have fully
\* observed radii: every step between the reported first_entry_time and
\* last_exit_time has all four radii valid.
C24_SpanIsComplete ==
    (dur_pc = "done" /\ duration.duration_source = "edge_interpolation") =>
        \A k \in C24_ReportedSpan : exposure_timeline[k].complete

\* The reported entry and exit are the first and the last complete step.
C24_FirstAndLastComplete ==
    (dur_pc = "done" /\ duration.duration_source = "edge_interpolation") =>
        /\ duration.first_entry_time =
               Int2Rat(exposure_timeline[first_complete_idx(exposure_timeline)].date)
        /\ duration.last_exit_time =
               Int2Rat(exposure_timeline[last_complete_idx(exposure_timeline)].date)
        /\ duration.exposure_window_hours = C23_FullDuration

C25_Order == [ne |-> 1, se |-> 2, sw |-> 3, nw |-> 4]

C25_Samples(q) ==
    generate_quadrant_arc_points(q, poly_radii[q], arc_points_per_quadrant)

C25_Vertices == {arc_coords[i] : i \in 1..Len(arc_coords)}

\* The valid quadrants appended before q.
C25_Before(q) == {p \in valid_quadrants(poly_radii) : C25_Order[p] < C25_Order[q]}

\* The quadrant whose arc was appended just before the arc of q.
C25_Previous(q) ==
    CHOOSE p \in C25_Before(q) : \A o \in C25_Before(q) : C25_Order[o] <= C25_Order[p]

\* The sample duplicates the end point of the previously appended arc.
C25_DuplicatesPreviousEnd(q, k) ==
    /\ C25_Before(q) # {}
    /\ C25_Samples(q)[k] = C25_Samples(C25_Previous(q))[Len(C25_Samples(C25_Previous(q)))]

C25_EverySampleKept ==
    \A q \in valid_quadrants(poly_radii) :
        \A k \in 1..Len(C25_Samples(q)) :
            C25_Samples(q)[k] \in C25_Vertices \/ C25_DuplicatesPreviousEnd(q, k)

C25_RingOfFour ==
    valid_quadrants(poly_radii) = Quads =>
        /\ Len(exterior_coords(arc_coords)) =
               arc_points_per_quadrant + 3 * (arc_points_per_quadrant - 1)
        /\ arc_coords[Len(arc_coords)] = arc_coords[1]

\* C25: with 3 or 4 valid quadrants the arcs are appended in the order NE,
\* SE, SW, NW; the only sample points left out of the vertex sequence are
\* those that duplicate the end point of the previously appended arc; with
\* all four quadrants valid the ring has n + 3(n-1) coordinates and closes
\* on its first point.
C25_ArcConcatenation ==
    (poly_pc = "done" /\ wind_polygon.kind = "arc_polygon") =>
        /\ \A i, j \in 1..Len(arc_coords) :
              (i < j /\ arc_coords[i].radius # arc_coords[j].radius) =>
                  \E p, q \in valid_quadrants(poly_radii) :
                      /\ C25_Order[p] < C25_Order[q]
                      /\ arc_coords[i].radius = poly_radii[p]
                      /\ arc_coords[j].radius = poly_radii[q]
        /\ C25_EverySampleKept
        /\ C25_RingOfFour

\* Every arc after the first starts where the arc before it ended: the
\* quadrant before it is valid too and has the same radius.
C25_ArcsMeet ==
    \A q \in valid_quadrants(poly_radii) :
        C25_Before(q) # {} =>
            /\ C25_Order[C25_Previous(q)] = C25_Order[q] - 1
            /\ poly_radii[C25_Previous(q)] = poly_radii[q]

\* Where the arcs meet, the samples left out are the duplicates, and the
\* ring of four equal quadrants closes on its first point.
C25_ArcConcatenationWhereArcsMeet ==
    (poly_pc = "done" /\ wind_polygon.kind = "arc_polygon" /\ C25_ArcsMeet) =>
        (C25_EverySampleKept /\ C25_RingOfFour)

\* Each arc after the first loses its first sample, whatever it duplicates.
C25_VertexCount ==
    (poly_pc = "done" /\ wind_polygon.kind = "arc_polygon") =>
        /\ Len(arc_coords) = wind_polygon.n_points
        /\ Len(arc_coords) =
              arc_points_per_quadrant
              + (Cardinality(valid_quadrants(poly_radii)) - 1) * (arc_points_per_quadrant - 1)

\* C26: whatever the order of the rows, the winds (missing ones included) and
\* the closest-approach timestamp, the lead times returned by
\* calculate_lead_times pass validate_lead_times: the categories without a
\* lead time form a suffix of cat1..cat5, and the lead times that exist never
\* increase with the category.
C26_Values == [i \in 1..Len(categories) |-> lead_times[LeadKey[categories[i]]]]

C26_NullSuffix ==
    \A i \in 1..Len(categories) : \A j \in i..Len(categories) :
        C26_Values[i] = None => C26_Values[j] = None

C26_NeverIncreases ==
    \A i \in 1..Len(categories) : \A j \in i..Len(categories) :
        (C26_Values[i] # None /\ C26_Values[j] # None)
            => RatLe(C26_Values[j], C26_Values[i])

C26_CalculatedLeadTimesValid ==
    lead_pc = "returned"
        => /\ validate_lead_times(lead_times)
           /\ C26_NullSuffix
           /\ C26_NeverIncreases

\* Rows out of time order, one wind missing, and the lead times differ between
\* categories with a category that was never reached.
C26_Witness ==
    /\ lead_pc = "returned"
    /\ Len(lead_track_df) = 2
    /\ lead_track_df[1].date > lead_track_df[2].date
    /\ C26_Values[1] # None
    /\ C26_Values[2] # None
    /\ C26_Values[1] # C26_Values[2]
    /\ C26_Values[5] = None

C26_WitnessMissingWind ==
    /\ lead_pc = "returned"
    /\ \E i \in 1..Len(lead_track_df) : ~ notna(lead_track_df[i].max_wind)
    /\ C26_Values[1] # None

\* C27: imputation reaches at most one step past the observations.  A step
\* with fewer than 2 observed (raw) quadrants receives imputed radii only if
\* the step just before it has at least 2 observed quadrants; in a run of
\* steps without any observed quadrant every step after the first keeps all
\* four effective radii missing, although the previous step has an effective
\* radius and a ratio is carried.
C27_Observed(i) == defined_count_of(track[i].base)

C27_Received(i) == \E q \in Quads : track[i].was_imputed[q]

C27_AllMissing(i) == \A q \in Quads : ~ notna(track[i].imputed[q])

C27_OneStepPastObservations ==
    impute_pc = "done" =>
        \A i \in 1..Len(track) :
            /\ (C27_Observed(i) < 2 /\ (C27_Received(i) \/ track[i].imputed # track[i].base))
                  => (i > 1 /\ C27_Observed(i - 1) >= 2)
            /\ (i > 1 /\ C27_Observed(i) = 0 /\ C27_Observed(i - 1) = 0)
                  => (C27_AllMissing(i) /\ ~ track[i].any_imputed)

\* Observed step, then two steps without observations: the first is imputed,
\* the second stays missing next to an effective radius and a carried ratio.
C27_Witness ==
    /\ impute_pc = "done"
    /\ Len(track) = 3
    /\ C27_Observed(1) >= 2
    /\ C27_Observed(2) = 0
    /\ C27_Observed(3) = 0
    /\ C27_Received(2)
    /\ \E q \in Quads : RatLt(Zero, track[2].imputed[q])
    /\ notna(track[3].ratio)
    /\ C27_AllMissing(3)

C28_StrictlyIncreasing ==
    \A i \in 1..(Len(track_df) - 1) : track_df[i].date < track_df[i + 1].date

C28_LastObservationTime == track_df[Len(track_df)].date

C28_TimesInOrder ==
    /\ records # <<>>
    /\ \A k \in 1..(Len(records) - 1) : records[k].date < records[k + 1].date
    /\ \A k \in 1..Len(records) : records[k].date <= C28_LastObservationTime
    /\ records[Len(records)].date = C28_LastObservationTime

\* C28: for every input track with strictly increasing timestamps and every
\* positive interval, the timestamps of the output of
\* interpolate_track_temporal are strictly increasing, none is later than the
\* last observation, and the final row has the timestamp of the last
\* observation.
C28_OutputTimes ==
    (interp_pc = "done" /\ C28_StrictlyIncreasing) =>
        IF track_df = <<>> THEN records = <<>> ELSE C28_TimesInOrder

\* Three observations in time order with interpolated rows between them.
C28_Witness ==
    /\ interp_pc = "done"
    /\ Len(track_df) = 3
    /\ C28_StrictlyIncreasing
    /\ Len(records) >= 4
    /\ records[Len(records)] = track_df[3]

\* A track of three observations with a gap shorter than the interval.
C28_WitnessShortGap ==
    /\ interp_pc = "done"
    /\ Len(track_df) = 3
    /\ C28_StrictlyIncreasing
    /\ track_df[2].date - track_df[1].date < interval_minutes
    /\ Len(records) = 2

\* The number of output rows before those generated for the gap (A, B] of
\* observations i and i + 1: the first observation and the rows of the
\* earlier gaps.
RECURSIVE C29_RowsBefore(_)
C29_RowsBefore(i) ==
    IF i = 1 THEN 1
    ELSE C29_RowsBefore(i - 1)
            + steps_between(track_sorted[i - 1], track_sorted[i], interval_minutes)

\* The positions of the output rows generated for the gap (A, B].
C29_RowsOfGap(i) ==
    (C29_RowsBefore(i) + 1)..
        (C29_RowsBefore(i)
            + steps_between(track_sorted[i], track_sorted[i + 1], interval_minutes))

C29_MissingInGap(i) == isna(track_sorted[i].lat) \/ isna(track_sorted[i + 1].lat)

C29_ReplacedOnlyAtTheEnd ==
    interp_pc = "done" =>
        \A i \in 1..(Len(track_sorted) - 1) :
            (Len(records) \in C29_RowsOfGap(i) /\ i + 1 < Len(track_sorted)) =>
                \A j \in (i + 1)..(Len(track_sorted) - 1) :
                    steps_between(track_sorted[j], track_sorted[j + 1], interval_minutes) = 0

C29_WitnessFinal ==
    /\ interp_pc = "done"
    /\ Len(track_sorted) = 2
    /\ isna(track_sorted[1].lat)
    /\ ~ isna(track_sorted[2].lat)
    /\ Cardinality(C29_RowsOfGap(1)) = 2
    /\ records[Len(records)].lat = track_sorted[2].lat

C30_Timeline == calculate_duration_features(exposure_timeline, dur_interval)

C30_EdgeResult ==
    interpolate_duration_near_edge(exposure_timeline, dur_interval, distance_to_edge)

\* What the call returns when only the polygon `confirming` is asked.
C30_DecidedBy(confirming) ==
    IF C30_Timeline.duration_in_envelope_hours = Zero /\ confirming = "inside"
    THEN C30_EdgeResult
    ELSE C30_Timeline

\* C30: when a coverage polygon is supplied to calculate_duration_for_tract
\* the envelope plays no part in the fallback decision: a coverage that does
\* not contain the point leaves the timeline result unchanged even when the
\* envelope contains the point.  The envelope decides only when coverage is
\* None.
C30_CoveragePrecedence ==
    dur_pc = "done" =>
        /\ coverage # "none" => duration = C30_DecidedBy(coverage)
        /\ coverage \in {"outside", "no_contains"} => duration = C30_Timeline
        /\ coverage = "none" => duration = C30_DecidedBy(envelope)

\* The coverage misses the point, the envelope contains it, and the edge
\* interpolation would have given another result: the timeline result stays.
C30_Witness ==
    /\ dur_pc = "done"
    /\ coverage = "outside"
    /\ envelope = "inside"
    /\ C30_Timeline.duration_in_envelope_hours = Zero
    /\ C30_EdgeResult.duration_source = "edge_interpolation"
    /\ RatLt(Zero, C30_EdgeResult.duration_in_envelope_hours)
    /\ duration = C30_Timeline

\* No coverage: the envelope confirms and the fallback is applied.
C30_WitnessEnvelopeDecides ==
    /\ dur_pc = "done"
    /\ coverage = "none"
    /\ envelope = "inside"
    /\ duration = C30_EdgeResult
    /\ duration # C30_Timeline

====
